---------------------------- MODULE Spec2Model ----------------------------
(***************************************************************************)
(* Model of the fixed-step RK4 gravitational simulators rk_nbody.py and    *)
(* rk_3body.py.                                                            *)
(*                                                                         *)
(* Numbers.  Python floats are IEEE-754 binary64.  They are modelled bit   *)
(* for bit: a finite float is a record [k |-> "f", s, e, m] with value     *)
(* (-1)^s * m * 2^e, where m is a 53-bit natural held as a little-endian   *)
(* sequence of 15-bit limbs (TLC's integers are 32 bits wide); the         *)
(* infinities are [k |-> "inf", s] and NaN is [k |-> "nan"].  +, -, *, /   *)
(* and sqrt round to nearest, ties to even, with gradual underflow below   *)
(* 2^-1022 and an infinity from 2^1024 on; Inf - Inf, 0 * Inf and Inf /    *)
(* Inf are NaN, and a division by 0.0 raises ZeroDivisionError.  Zero is   *)
(* kept unsigned (-0.0 == 0.0 in Python, and no operation of the scripts   *)
(* tells them apart).  The power operator ** is float_pow over the C       *)
(* library's pow, which is not correctly rounded; it is modelled as glibc  *)
(* 2.36 computes it, over the whole range: a power that underflows is the  *)
(* subnormal double or the 0.0 that pow returns, and one that overflows    *)
(* raises OverflowError.  A raised exception is a record whose k is its    *)
(* name.  The same program text is also run over exact rationals [k |->    *)
(* "q", s, n, d]: the arithmetic is chosen by the kind of the operands, so *)
(* that statements "with exact arithmetic" and statements about the floats *)
(* the code really computes are settled on one model.  Runs of the exact   *)
(* kind have h, t_f and initial fields that binary64 holds exactly and     *)
(* times t that it adds exactly, so that the loop of an exact run takes    *)
(* the path the script takes on the same input; everything that depends on *)
(* how h, t_f/h or t += h is rounded is run in binary64.                   *)
(*                                                                         *)
(* Kernels.  rk_3body.py calls its Python f0.  rk_nbody.py defines the     *)
(* Python f1 (lines 35-52) and then rebinds the name to the compiled       *)
(* rkfuncs.gravity_first_order (line 54), whose source lib/rkfuncs.c is    *)
(* not among the sources modelled.  The variable kernel names the kernel   *)
(* of a run: "f0", "f1" (rk_nbody.py with its own f1, line 54 left out) or *)
(* "gravity_first_order" (rk_nbody.py as it stands).  gravity_first_order  *)
(* is modelled from its description: the sums of f1, with a result that is *)
(* not finite where f1 raises.  The model does not compute with such       *)
(* results: a run whose compiled kernel meets one stays at "nonfinite".    *)
(***************************************************************************)
EXTENDS Integers, Sequences, FiniteSets, TLC

(***************************************************************************)
(* Naturals of arbitrary size: little-endian limbs, no high zero limb.     *)
(***************************************************************************)
BASE == 32768
LIMB == 15

Min(a, b) == IF a < b THEN a ELSE b

BHead(a) == IF a = <<>> THEN 0 ELSE a[1]
BTail(a) == IF a = <<>> THEN <<>> ELSE Tail(a)

RECURSIVE BNorm(_)
BNorm(a) ==
  IF a = <<>> THEN a
  ELSE IF a[Len(a)] = 0 THEN BNorm(SubSeq(a, 1, Len(a) - 1)) ELSE a

RECURSIVE BFromInt(_)
BFromInt(n) == IF n = 0 THEN <<>> ELSE <<n % BASE>> \o BFromInt(n \div BASE)

RECURSIVE BToInt(_)
BToInt(a) == IF a = <<>> THEN 0 ELSE a[1] + BASE * BToInt(Tail(a))

RECURSIVE BAddC(_, _, _)
BAddC(a, b, c) ==
  IF b = <<>> /\ c = 0 THEN a
  ELSE IF a = <<>> /\ c = 0 THEN b
  ELSE IF a = <<>> /\ b = <<>> THEN <<c>>
  ELSE LET x == BHead(a) + BHead(b) + c
       IN  <<x % BASE>> \o BAddC(BTail(a), BTail(b), x \div BASE)

BAdd(a, b) == BAddC(a, b, 0)

RECURSIVE BSubC(_, _, _)
BSubC(a, b, c) ==
  IF b = <<>> /\ c = 0 THEN a
  ELSE LET x == BHead(a) - BHead(b) - c
       IN  <<x % BASE>> \o BSubC(BTail(a), BTail(b), IF x < 0 THEN 1 ELSE 0)

\* a - b for a >= b
BSub(a, b) == BNorm(BSubC(a, b, 0))

RECURSIVE BCmpAt(_, _, _)
BCmpAt(a, b, i) ==
  IF i = 0 THEN 0
  ELSE IF a[i] < b[i] THEN 0 - 1
  ELSE IF a[i] > b[i] THEN 1
  ELSE BCmpAt(a, b, i - 1)

\* -1, 0, 1 as a < b, a = b, a > b
BCmp(a, b) ==
  IF Len(a) < Len(b) THEN 0 - 1
  ELSE IF Len(a) > Len(b) THEN 1
  ELSE BCmpAt(a, b, Len(a))

RECURSIVE BMulC(_, _, _)
BMulC(a, k, c) ==
  IF a = <<>> THEN (IF c = 0 THEN <<>> ELSE <<c>>)
  ELSE LET x == a[1] * k + c
       IN  <<x % BASE>> \o BMulC(Tail(a), k, x \div BASE)

\* a * k for a limb k
BMulSmall(a, k) == IF k = 0 THEN <<>> ELSE BMulC(a, k, 0)

BShiftLimbs(a, q) == IF a = <<>> THEN a ELSE [i \in 1..q |-> 0] \o a

RECURSIVE BMul(_, _)
BMul(a, b) ==
  IF a = <<>> \/ b = <<>> THEN <<>>
  ELSE BAdd(BMulSmall(a, b[1]), BShiftLimbs(BMul(a, Tail(b)), 1))

\* a * 2^k
BShl(a, k) == BShiftLimbs(BMulSmall(a, 2 ^ (k % LIMB)), k \div LIMB)

\* floor(a / 2^k)
BShr(a, k) ==
  LET q == k \div LIMB
      p == 2 ^ (k % LIMB)
      n == Len(a) - q
  IN  IF n <= 0 THEN <<>>
      ELSE BNorm([i \in 1..n |->
                    (a[q + i] \div p)
                    + ((IF i < n THEN a[q + i + 1] ELSE 0) % p) * (BASE \div p)])

\* a mod 2^k # 0
BLowNonZero(a, k) ==
  LET q == k \div LIMB
      p == 2 ^ (k % LIMB)
  IN  \/ \E i \in 1..Min(q, Len(a)) : a[i] # 0
      \/ q < Len(a) /\ a[q + 1] % p # 0

\* bit i of a (bit 0 is the lowest)
BBit(a, i) ==
  LET q == i \div LIMB
  IN  IF q >= Len(a) THEN 0 ELSE (a[q + 1] \div (2 ^ (i % LIMB))) % 2

BitLenSmall(x) == IF x = 0 THEN 0 ELSE CHOOSE k \in 1..LIMB : 2 ^ (k - 1) <= x /\ x < 2 ^ k

BBitLen(a) == IF a = <<>> THEN 0 ELSE LIMB * (Len(a) - 1) + BitLenSmall(a[Len(a)])

RECURSIVE BFixDigit(_, _, _)
BFixDigit(qh, r, d) ==
  IF BCmp(BMulSmall(d, qh), r) > 0 THEN BFixDigit(qh - 1, r, d) ELSE qh

\* Long division, one quotient limb per step.  BDivAt is <<quotient,
\* remainder>> of the number made of limbs i..Len(a) of a, divided by d, whose
\* top limb has its top bit set; BDivDigit brings down limb a[i] into the
\* remainder r1 and finds the next quotient limb qh.
BDivOut(q, r1, d, qh) ==
  << IF q = <<>> /\ qh = 0 THEN <<>> ELSE <<qh>> \o q, BSub(r1, BMulSmall(d, qh)) >>

BDivDigit(q, r1, d, n) ==
  BDivOut(q, r1, d,
          BFixDigit(Min(BASE - 1,
                        ((IF Len(r1) > n THEN r1[n + 1] ELSE 0) * BASE
                         + (IF Len(r1) >= n THEN r1[n] ELSE 0)) \div d[n]),
                    r1, d))

BDivDown(prev, ai, d) ==
  BDivDigit(prev[1], IF prev[2] = <<>> /\ ai = 0 THEN <<>> ELSE <<ai>> \o prev[2], d, Len(d))

RECURSIVE BDivAt(_, _, _)
BDivAt(a, i, d) ==
  IF i > Len(a) THEN << <<>>, <<>> >> ELSE BDivDown(BDivAt(a, i + 1, d), a[i], d)

\* <<floor(a / d), r>> for d # 0, where r is a mod d times 2^sh, sh the shift
\* that sets the top bit of the top limb of d: r = <<>> exactly if d divides a
BDivMod(a, d) ==
  BDivAt(BShl(a, LIMB - BitLenSmall(d[Len(d)])), 1, BShl(d, LIMB - BitLenSmall(d[Len(d)])))

\* Newton's iteration for floor(sqrt(n)) from x >= sqrt(n)
RECURSIVE BNewton(_, _)
BNewtonTry(n, x, y) == IF BCmp(y, x) < 0 THEN BNewton(n, y) ELSE x
BNewton(n, x) == BNewtonTry(n, x, BShr(BAdd(x, BDivMod(n, x)[1]), 1))

\* floor(sqrt(n))
BIsqrt(n) == IF n = <<>> THEN <<>> ELSE BNewton(n, BShl(<<1>>, (BBitLen(n) + 1) \div 2))

(***************************************************************************)
(* IEEE-754 binary64, round to nearest, ties to even.                      *)
(***************************************************************************)
PREC == 53

FZero == [k |-> "f", s |-> 0, e |-> 0, m |-> <<>>]
FMake(s, m, e) == [k |-> "f", s |-> s, e |-> e, m |-> m]

\* a mantissa of PREC bits after the round-up, which may have carried out
FCarry(s, m, e) == IF BBitLen(m) > PREC THEN FMake(s, BShr(m, 1), e + 1) ELSE FMake(s, m, e)

\* top is the first PREC bits, half the next bit, rest whether any later one is set
FNearest(s, top, e, half, rest) ==
  IF half /\ (rest \/ top[1] % 2 = 1) THEN FCarry(s, BAdd(top, <<1>>), e) ELSE FMake(s, top, e)

\* m has PREC + sh bits
FFit(s, m, e, sticky, sh) ==
  IF sh <= 0 THEN FMake(s, BShl(m, 0 - sh), e + sh)
  ELSE FNearest(s, BShr(m, sh), e + sh, BBit(m, sh - 1) = 1, sticky \/ BLowNonZero(m, sh - 1))

\* The double nearest to (-1)^s * (m + f) * 2^e, where 0 <= f < 1 and f # 0
\* exactly if sticky; with sticky set, m has more than PREC + 1 bits.
FRound(s, m, e, sticky) ==
  IF m = <<>> THEN FZero ELSE FFit(s, m, e, sticky, BBitLen(m) - PREC)

FFromInt(n) == FRound(IF n < 0 THEN 1 ELSE 0, BFromInt(IF n < 0 THEN 0 - n ELSE n), 0, FALSE)

FNeg(a) == IF a.m = <<>> THEN a ELSE [a EXCEPT !.s = 1 - a.s]

\* (-1)^sa * ma + (-1)^sb * mb, times 2^e; c compares ma with mb
FSum(sa, sb, ma, mb, e, c) ==
  FRound(IF sa = sb \/ c >= 0 THEN sa ELSE sb,
         IF sa = sb THEN BAdd(ma, mb)
         ELSE BSub(IF c >= 0 THEN ma ELSE mb, IF c >= 0 THEN mb ELSE ma),
         e, FALSE)

FAligned(sa, sb, ma, mb, e) == FSum(sa, sb, ma, mb, e, BCmp(ma, mb))

\* An addend below a quarter of the other's last place cannot change the sum.
FAdd(a, b) ==
  IF a.m = <<>> THEN b
  ELSE IF b.m = <<>> THEN a
  ELSE IF a.e - b.e > PREC + 4 THEN a
  ELSE IF b.e - a.e > PREC + 4 THEN b
  ELSE FAligned(a.s, b.s, BShl(a.m, a.e - Min(a.e, b.e)), BShl(b.m, b.e - Min(a.e, b.e)),
                Min(a.e, b.e))

FSub(a, b) == FAdd(a, FNeg(b))

FMul(a, b) ==
  IF a.m = <<>> \/ b.m = <<>> THEN FZero
  ELSE FRound((a.s + b.s) % 2, BMul(a.m, b.m), a.e + b.e, FALSE)

\* a quotient of 56 or 57 bits and whether it is inexact
FQuot(s, qr, e) == FRound(s, qr[1], e, qr[2] # <<>>)

\* a / b for b # 0
FDiv(a, b) ==
  IF a.m = <<>> THEN FZero
  ELSE FQuot((a.s + b.s) % 2, BDivMod(BShl(a.m, PREC + 3), b.m), a.e - b.e - (PREC + 3))

\* the root r of n = m * 2^sh, times 2^e
FRooted(n, r, e) == FRound(0, r, e, BMul(r, r) # n)
FRootOf(n, e) == FRooted(n, BIsqrt(n), e)

\* math.sqrt(a) for a >= 0: the root of m * 2^sh, with sh = PREC + 5 or
\* PREC + 6, the one that leaves e - sh even
FSqrt(a) ==
  IF a.m = <<>> THEN FZero
  ELSE FRootOf(BShl(a.m, PREC + 5 + ((a.e - (PREC + 5)) % 2)),
               (a.e - (PREC + 5 + ((a.e - (PREC + 5)) % 2))) \div 2)

FSign(a) == IF a.m = <<>> THEN 0 ELSE 1 - 2 * a.s

\* -1, 0, 1 as a < b, a == b, a > b
FCmp(a, b) ==
  IF FSign(a) # FSign(b) THEN (IF FSign(a) < FSign(b) THEN 0 - 1 ELSE 1)
  ELSE IF a.e # b.e THEN (IF a.e < b.e THEN 0 - FSign(a) ELSE FSign(a))
  ELSE FSign(a) * BCmp(a.m, b.m)

\* int(a): truncation toward zero
FTrunc(a) ==
  IF a.m = <<>> THEN 0
  ELSE FSign(a) * BToInt(IF a.e >= 0 THEN BShl(a.m, a.e) ELSE BShr(a.m, 0 - a.e))

(***************************************************************************)
(* Python's float ** float is float_pow (floatobject.c), which answers the *)
(* bases 0.0 and 1.0 itself, takes the power of a negative base from the   *)
(* absolute value, calls the C library's pow(x, y) and raises              *)
(* OverflowError when pow overflows; an int exponent is first converted to *)
(* a float.  The library is glibc 2.36, whose pow                          *)
(* (sysdeps/ieee754/dbl-64/e_pow.c) is not correctly rounded: it is        *)
(* modelled operation by operation, as the variant __ieee754_pow_fma that  *)
(* glibc selects on x86-64 processors with fused multiply-add, in which    *)
(* the compiler has contracted the multiply-adds of the C text into fma   *)
(* (all but the one of specialcase for results below 2^-1022).  The        *)
(* constants are the library's tables __pow_log_data and __exp_data.  The  *)
(* operators of this section work with an unbounded exponent; pow gives    *)
(* the double the library returns over the whole range of a finite         *)
(* x > 0: a subnormal double or 0.0 where the power underflows, Inf where  *)
(* it overflows.                                                           *)
(***************************************************************************)
\* fma(a, b, c): a * b + c with one rounding
FFma(a, b, c) ==
  IF a.m = <<>> \/ b.m = <<>> THEN c
  ELSE IF c.m = <<>> THEN FMul(a, b)
  ELSE FAligned((a.s + b.s) % 2, c.s,
                BShl(BMul(a.m, b.m), a.e + b.e - Min(a.e + b.e, c.e)),
                BShl(c.m, c.e - Min(a.e + b.e, c.e)),
                Min(a.e + b.e, c.e))

\* DOUBLE_IS_ODD_INTEGER(y)
FOddInt(y) ==
  /\ y.m # <<>>
  /\ y.e <= 0
  /\ 0 - y.e < PREC
  /\ BBit(y.m, 0 - y.e) = 1
  /\ ~BLowNonZero(y.m, 0 - y.e)

\* __pow_log_data: tab[i + 1] is the library's tab[i], poly[i + 1] its poly[i]
pow_log_data ==
  [ln2hi |-> FMake(0, <<14336, 32244, 14603, 177>>, -53),
   ln2lo |-> FMake(0, <<26416, 10126, 19806, 247>>, -97),
   poly |-> << FMake(1, <<0, 0, 0, 128>>, -53),
              FMake(1, <<21856, 10922, 21845, 170>>, -53),
              FMake(0, <<6, 0, 0, 128>>, -53),
              FMake(0, <<21838, 12978, 26214, 204>>, -53),
              FMake(1, <<9338, 10835, 21845, 170>>, -53),
              FMake(1, <<17897, 13968, 9582, 146>>, -52),
              FMake(0, <<16323, 5708, 174, 128>>, -52) >>,
   tab |-> << [invc |-> FMake(0, <<0, 0, 0, 181>>, -52), logc |-> FMake(1, <<18432, 25971, 12811, 177>>, -54),
            logctail |-> FMake(0, <<22144, 20590, 20624, 213>>, -100)],
           [invc |-> FMake(0, <<0, 0, 0, 180>>, -52), logc |-> FMake(1, <<2048, 32432, 18166, 174>>, -54),
            logctail |-> FMake(1, <<30496, 12737, 5155, 229>>, -98)],
           [invc |-> FMake(0, <<0, 0, 0, 179>>, -52), logc |-> FMake(1, <<22528, 11914, 23004, 171>>, -54),
            logctail |-> FMake(1, <<20589, 11116, 2707, 155>>, -97)],
           [invc |-> FMake(0, <<0, 0, 0, 178>>, -52), logc |-> FMake(1, <<30720, 3675, 27318, 168>>, -54),
            logctail |-> FMake(1, <<26581, 15712, 5010, 180>>, -101)],
           [invc |-> FMake(0, <<0, 0, 0, 177>>, -52), logc |-> FMake(1, <<30720, 10990, 31102, 165>>, -54),
            logctail |-> FMake(1, <<16096, 9810, 28070, 160>>, -99)],
           [invc |-> FMake(0, <<0, 0, 0, 176>>, -52), logc |-> FMake(1, <<24576, 1080, 1583, 163>>, -54),
            logctail |-> FMake(0, <<1228, 4249, 24765, 158>>, -98)],
           [invc |-> FMake(0, <<0, 0, 0, 175>>, -52), logc |-> FMake(1, <<10240, 3341, 4290, 160>>, -54),
            logctail |-> FMake(0, <<2874, 23300, 3023, 226>>, -102)],
           [invc |-> FMake(0, <<0, 0, 0, 174>>, -52), logc |-> FMake(1, <<18432, 10962, 6449, 157>>, -54),
            logctail |-> FMake(0, <<5216, 3235, 18202, 133>>, -97)],
           [invc |-> FMake(0, <<0, 0, 0, 173>>, -52), logc |-> FMake(1, <<0, 13617, 8054, 154>>, -54),
            logctail |-> FMake(0, <<146, 10635, 25911, 170>>, -97)],
           [invc |-> FMake(0, <<0, 0, 0, 172>>, -52), logc |-> FMake(1, <<8192, 30146, 9098, 151>>, -54),
            logctail |-> FMake(0, <<11224, 13166, 27770, 179>>, -97)],
           [invc |-> FMake(0, <<0, 0, 0, 171>>, -52), logc |-> FMake(1, <<2048, 10173, 9576, 148>>, -54),
            logctail |-> FMake(0, <<12351, 28063, 10322, 174>>, -98)],
           [invc |-> FMake(0, <<0, 0, 0, 171>>, -52), logc |-> FMake(1, <<2048, 10173, 9576, 148>>, -54),
            logctail |-> FMake(0, <<12351, 28063, 10322, 174>>, -98)],
           [invc |-> FMake(0, <<0, 0, 0, 170>>, -52), logc |-> FMake(1, <<30720, 30622, 9479, 145>>, -54),
            logctail |-> FMake(1, <<23158, 20647, 26768, 178>>, -98)],
           [invc |-> FMake(0, <<0, 0, 0, 169>>, -52), logc |-> FMake(1, <<6144, 723, 8803, 142>>, -54),
            logctail |-> FMake(1, <<21508, 20942, 16113, 253>>, -98)],
           [invc |-> FMake(0, <<0, 0, 0, 168>>, -52), logc |-> FMake(1, <<10240, 22359, 7538, 139>>, -54),
            logctail |-> FMake(0, <<10480, 26373, 32536, 248>>, -98)],
           [invc |-> FMake(0, <<0, 0, 0, 167>>, -52), logc |-> FMake(1, <<18432, 29532, 5679, 136>>, -54),
            logctail |-> FMake(1, <<23142, 31242, 8979, 181>>, -97)],
           [invc |-> FMake(0, <<0, 0, 0, 166>>, -52), logc |-> FMake(1, <<4096, 17639, 3219, 133>>, -54),
            logctail |-> FMake(1, <<782, 32232, 12217, 227>>, -99)],
           [invc |-> FMake(0, <<0, 0, 0, 165>>, -52), logc |-> FMake(1, <<20480, 10601, 150, 130>>, -54),
            logctail |-> FMake(1, <<11647, 15848, 23266, 129>>, -100)],
           [invc |-> FMake(0, <<0, 0, 0, 165>>, -52), logc |-> FMake(1, <<20480, 10601, 150, 130>>, -54),
            logctail |-> FMake(1, <<11647, 15848, 23266, 129>>, -100)],
           [invc |-> FMake(0, <<0, 0, 0, 164>>, -52), logc |-> FMake(1, <<16384, 23228, 25697, 253>>, -55),
            logctail |-> FMake(0, <<15495, 22322, 23722, 234>>, -99)],
           [invc |-> FMake(0, <<0, 0, 0, 163>>, -52), logc |-> FMake(1, <<24576, 6072, 17079, 247>>, -55),
            logctail |-> FMake(0, <<12068, 14605, 6878, 217>>, -97)],
           [invc |-> FMake(0, <<0, 0, 0, 162>>, -52), logc |-> FMake(1, <<28672, 23637, 7197, 241>>, -55),
            logctail |-> FMake(1, <<32528, 10367, 15677, 185>>, -98)],
           [invc |-> FMake(0, <<0, 0, 0, 161>>, -52), logc |-> FMake(1, <<16384, 22175, 28805, 234>>, -55),
            logctail |-> FMake(0, <<26651, 30612, 27206, 141>>, -97)],
           [invc |-> FMake(0, <<0, 0, 0, 160>>, -52), logc |-> FMake(1, <<8192, 3893, 16351, 228>>, -55),
            logctail |-> FMake(0, <<1076, 20799, 25917, 187>>, -97)],
           [invc |-> FMake(0, <<0, 0, 0, 160>>, -52), logc |-> FMake(1, <<8192, 3893, 16351, 228>>, -55),
            logctail |-> FMake(0, <<1076, 20799, 25917, 187>>, -97)],
           [invc |-> FMake(0, <<0, 0, 0, 159>>, -52), logc |-> FMake(1, <<4096, 26715, 2585, 222>>, -55),
            logctail |-> FMake(0, <<14223, 25367, 15040, 202>>, -98)],
           [invc |-> FMake(0, <<0, 0, 0, 158>>, -52), logc |-> FMake(1, <<16384, 7425, 20261, 215>>, -55),
            logctail |-> FMake(0, <<4198, 32667, 14732, 210>>, -104)],
           [invc |-> FMake(0, <<0, 0, 0, 157>>, -52), logc |-> FMake(1, <<12288, 16325, 3824, 209>>, -55),
            logctail |-> FMake(1, <<16874, 14477, 12691, 172>>, -97)],
           [invc |-> FMake(0, <<0, 0, 0, 157>>, -52), logc |-> FMake(1, <<12288, 16325, 3824, 209>>, -55),
            logctail |-> FMake(1, <<16874, 14477, 12691, 172>>, -97)],
           [invc |-> FMake(0, <<0, 0, 0, 156>>, -52), logc |-> FMake(1, <<20480, 14824, 18794, 202>>, -55),
            logctail |-> FMake(1, <<21731, 2435, 18276, 214>>, -97)],
           [invc |-> FMake(0, <<0, 0, 0, 155>>, -52), logc |-> FMake(1, <<20480, 19009, 32385, 195>>, -55),
            logctail |-> FMake(0, <<31241, 32695, 30461, 221>>, -97)],
           [invc |-> FMake(0, <<0, 0, 0, 154>>, -52), logc |-> FMake(1, <<24576, 1057, 11812, 189>>, -55),
            logctail |-> FMake(0, <<19032, 25766, 28225, 222>>, -97)],
           [invc |-> FMake(0, <<0, 0, 0, 154>>, -52), logc |-> FMake(1, <<24576, 1057, 11812, 189>>, -55),
            logctail |-> FMake(0, <<19032, 25766, 28225, 222>>, -97)],
           [invc |-> FMake(0, <<0, 0, 0, 153>>, -52), logc |-> FMake(1, <<20480, 20019, 22591, 182>>, -55),
            logctail |-> FMake(1, <<25190, 18277, 4522, 135>>, -98)],
           [invc |-> FMake(0, <<0, 0, 0, 152>>, -52), logc |-> FMake(1, <<4096, 24911, 31937, 175>>, -55),
            logctail |-> FMake(1, <<20537, 15904, 30990, 244>>, -98)],
           [invc |-> FMake(0, <<0, 0, 0, 152>>, -52), logc |-> FMake(1, <<4096, 24911, 31937, 175>>, -55),
            logctail |-> FMake(1, <<20537, 15904, 30990, 244>>, -98)],
           [invc |-> FMake(0, <<0, 0, 0, 151>>, -52), logc |-> FMake(1, <<12288, 18243, 7063, 169>>, -55),
            logctail |-> FMake(1, <<23439, 8206, 31278, 134>>, -97)],
           [invc |-> FMake(0, <<0, 0, 0, 150>>, -52), logc |-> FMake(1, <<0, 22935, 13485, 162>>, -55),
            logctail |-> FMake(0, <<30780, 17002, 13061, 184>>, -98)],
           [invc |-> FMake(0, <<0, 0, 0, 150>>, -52), logc |-> FMake(1, <<0, 22935, 13485, 162>>, -55),
            logctail |-> FMake(0, <<30780, 17002, 13061, 184>>, -98)],
           [invc |-> FMake(0, <<0, 0, 0, 149>>, -52), logc |-> FMake(1, <<4096, 16445, 18416, 155>>, -55),
            logctail |-> FMake(0, <<21562, 6734, 25113, 139>>, -100)],
           [invc |-> FMake(0, <<0, 0, 0, 148>>, -52), logc |-> FMake(1, <<28672, 28735, 21835, 148>>, -55),
            logctail |-> FMake(1, <<17416, 12003, 13504, 164>>, -97)],
           [invc |-> FMake(0, <<0, 0, 0, 147>>, -52), logc |-> FMake(1, <<24576, 10846, 23723, 141>>, -55),
            logctail |-> FMake(1, <<9110, 12323, 656, 244>>, -97)],
           [invc |-> FMake(0, <<0, 0, 0, 147>>, -52), logc |-> FMake(1, <<24576, 10846, 23723, 141>>, -55),
            logctail |-> FMake(1, <<9110, 12323, 656, 244>>, -97)],
           [invc |-> FMake(0, <<0, 0, 0, 146>>, -52), logc |-> FMake(1, <<4096, 31137, 24057, 134>>, -55),
            logctail |-> FMake(0, <<23540, 4560, 9818, 211>>, -99)],
           [invc |-> FMake(0, <<0, 0, 0, 146>>, -52), logc |-> FMake(1, <<4096, 31137, 24057, 134>>, -55),
            logctail |-> FMake(0, <<23540, 4560, 9818, 211>>, -99)],
           [invc |-> FMake(0, <<0, 0, 0, 145>>, -52), logc |-> FMake(1, <<24576, 25527, 12868, 255>>, -56),
            logctail |-> FMake(1, <<13298, 14662, 21841, 171>>, -97)],
           [invc |-> FMake(0, <<0, 0, 0, 144>>, -52), logc |-> FMake(1, <<0, 23638, 7197, 241>>, -56),
            logctail |-> FMake(0, <<60, 21984, 20656, 209>>, -97)],
           [invc |-> FMake(0, <<0, 0, 0, 144>>, -52), logc |-> FMake(1, <<0, 23638, 7197, 241>>, -56),
            logctail |-> FMake(0, <<60, 21984, 20656, 209>>, -97)],
           [invc |-> FMake(0, <<0, 0, 0, 143>>, -52), logc |-> FMake(1, <<16384, 7863, 31058, 226>>, -56),
            logctail |-> FMake(1, <<15878, 12479, 12637, 232>>, -98)],
           [invc |-> FMake(0, <<0, 0, 0, 142>>, -52), logc |-> FMake(1, <<24576, 29845, 18868, 212>>, -56),
            logctail |-> FMake(0, <<10952, 20663, 25815, 169>>, -97)],
           [invc |-> FMake(0, <<0, 0, 0, 142>>, -52), logc |-> FMake(1, <<24576, 29845, 18868, 212>>, -56),
            logctail |-> FMake(0, <<10952, 20663, 25815, 169>>, -97)],
           [invc |-> FMake(0, <<0, 0, 0, 141>>, -52), logc |-> FMake(1, <<8192, 11363, 3351, 198>>, -56),
            logctail |-> FMake(0, <<22120, 6750, 28837, 155>>, -98)],
           [invc |-> FMake(0, <<0, 0, 0, 141>>, -52), logc |-> FMake(1, <<8192, 11363, 3351, 198>>, -56),
            logctail |-> FMake(0, <<22120, 6750, 28837, 155>>, -98)],
           [invc |-> FMake(0, <<0, 0, 0, 140>>, -52), logc |-> FMake(1, <<24576, 5578, 17226, 183>>, -56),
            logctail |-> FMake(1, <<29658, 4710, 23775, 180>>, -97)],
           [invc |-> FMake(0, <<0, 0, 0, 139>>, -52), logc |-> FMake(1, <<8192, 32268, 27676, 168>>, -56),
            logctail |-> FMake(0, <<24151, 17292, 2413, 248>>, -98)],
           [invc |-> FMake(0, <<0, 0, 0, 139>>, -52), logc |-> FMake(1, <<8192, 32268, 27676, 168>>, -56),
            logctail |-> FMake(0, <<24151, 17292, 2413, 248>>, -98)],
           [invc |-> FMake(0, <<0, 0, 0, 138>>, -52), logc |-> FMake(1, <<24576, 11319, 1886, 154>>, -56),
            logctail |-> FMake(0, <<5087, 6642, 31595, 226>>, -97)],
           [invc |-> FMake(0, <<0, 0, 0, 138>>, -52), logc |-> FMake(1, <<24576, 11319, 1886, 154>>, -56),
            logctail |-> FMake(0, <<5087, 6642, 31595, 226>>, -97)],
           [invc |-> FMake(0, <<0, 0, 0, 137>>, -52), logc |-> FMake(1, <<0, 23879, 5339, 139>>, -56),
            logctail |-> FMake(0, <<8969, 27935, 29049, 163>>, -98)],
           [invc |-> FMake(0, <<0, 0, 0, 136>>, -52), logc |-> FMake(1, <<0, 35, 10435, 248>>, -57),
            logctail |-> FMake(0, <<3729, 1645, 26234, 234>>, -97)],
           [invc |-> FMake(0, <<0, 0, 0, 136>>, -52), logc |-> FMake(1, <<0, 35, 10435, 248>>, -57),
            logctail |-> FMake(0, <<3729, 1645, 26234, 234>>, -97)],
           [invc |-> FMake(0, <<0, 0, 0, 135>>, -52), logc |-> FMake(1, <<0, 25139, 2933, 218>>, -57),
            logctail |-> FMake(0, <<28748, 19372, 2539, 228>>, -98)],
           [invc |-> FMake(0, <<0, 0, 0, 135>>, -52), logc |-> FMake(1, <<0, 25139, 2933, 218>>, -57),
            logctail |-> FMake(0, <<28748, 19372, 2539, 228>>, -98)],
           [invc |-> FMake(0, <<0, 0, 0, 134>>, -52), logc |-> FMake(1, <<16384, 27749, 20835, 187>>, -57),
            logctail |-> FMake(1, <<8686, 27109, 28952, 231>>, -97)],
           [invc |-> FMake(0, <<0, 0, 0, 134>>, -52), logc |-> FMake(1, <<16384, 27749, 20835, 187>>, -57),
            logctail |-> FMake(1, <<8686, 27109, 28952, 231>>, -97)],
           [invc |-> FMake(0, <<0, 0, 0, 133>>, -52), logc |-> FMake(1, <<16384, 29693, 31262, 156>>, -57),
            logctail |-> FMake(0, <<32426, 27213, 2783, 168>>, -100)],
           [invc |-> FMake(0, <<0, 0, 0, 133>>, -52), logc |-> FMake(1, <<16384, 29693, 31262, 156>>, -57),
            logctail |-> FMake(0, <<32426, 27213, 2783, 168>>, -100)],
           [invc |-> FMake(0, <<0, 0, 0, 132>>, -52), logc |-> FMake(1, <<0, 7408, 2668, 252>>, -58),
            logctail |-> FMake(1, <<2532, 30972, 153, 204>>, -97)],
           [invc |-> FMake(0, <<0, 0, 0, 132>>, -52), logc |-> FMake(1, <<0, 7408, 2668, 252>>, -58),
            logctail |-> FMake(1, <<2532, 30972, 153, 204>>, -97)],
           [invc |-> FMake(0, <<0, 0, 0, 131>>, -52), logc |-> FMake(1, <<0, 4011, 25708, 189>>, -58),
            logctail |-> FMake(1, <<9785, 10229, 13650, 196>>, -97)],
           [invc |-> FMake(0, <<0, 0, 0, 130>>, -52), logc |-> FMake(1, <<0, 25080, 674, 254>>, -59),
            logctail |-> FMake(1, <<9884, 28071, 31219, 248>>, -102)],
           [invc |-> FMake(0, <<0, 0, 0, 130>>, -52), logc |-> FMake(1, <<0, 25080, 674, 254>>, -59),
            logctail |-> FMake(1, <<9884, 28071, 31219, 248>>, -102)],
           [invc |-> FMake(0, <<0, 0, 0, 129>>, -52), logc |-> FMake(1, <<0, 22048, 169, 255>>, -60),
            logctail |-> FMake(1, <<16612, 7092, 2300, 207>>, -98)],
           [invc |-> FMake(0, <<0, 0, 0, 129>>, -52), logc |-> FMake(1, <<0, 22048, 169, 255>>, -60),
            logctail |-> FMake(1, <<16612, 7092, 2300, 207>>, -98)],
           [invc |-> FMake(0, <<0, 0, 0, 128>>, -52), logc |-> FZero,
            logctail |-> FZero],
           [invc |-> FMake(0, <<0, 0, 0, 128>>, -52), logc |-> FZero,
            logctail |-> FZero],
           [invc |-> FMake(0, <<0, 0, 0, 254>>, -53), logc |-> FMake(0, <<0, 27410, 16469, 128>>, -59),
            logctail |-> FMake(1, <<11240, 13114, 7598, 134>>, -98)],
           [invc |-> FMake(0, <<0, 0, 0, 252>>, -53), logc |-> FMake(0, <<0, 12583, 345, 129>>, -58),
            logctail |-> FMake(1, <<30674, 3525, 29036, 158>>, -97)],
           [invc |-> FMake(0, <<0, 0, 0, 250>>, -53), logc |-> FMake(0, <<0, 20882, 9364, 194>>, -58),
            logctail |-> FMake(1, <<3124, 25780, 744, 213>>, -97)],
           [invc |-> FMake(0, <<0, 0, 0, 248>>, -53), logc |-> FMake(0, <<16384, 5070, 1398, 130>>, -57),
            logctail |-> FMake(0, <<22355, 14819, 18177, 136>>, -99)],
           [invc |-> FMake(0, <<0, 0, 0, 246>>, -53), logc |-> FMake(0, <<0, 10332, 6843, 163>>, -57),
            logctail |-> FMake(1, <<32040, 27515, 22989, 224>>, -97)],
           [invc |-> FMake(0, <<0, 0, 0, 244>>, -53), logc |-> FMake(0, <<16384, 10559, 21160, 196>>, -57),
            logctail |-> FMake(1, <<9853, 8372, 26199, 203>>, -98)],
           [invc |-> FMake(0, <<0, 0, 0, 242>>, -53), logc |-> FMake(0, <<16384, 7099, 11727, 230>>, -57),
            logctail |-> FMake(1, <<10247, 4016, 9161, 211>>, -98)],
           [invc |-> FMake(0, <<0, 0, 0, 241>>, -53), logc |-> FMake(0, <<16384, 13, 10439, 247>>, -57),
            logctail |-> FMake(1, <<15227, 8082, 17657, 240>>, -99)],
           [invc |-> FMake(0, <<0, 0, 0, 239>>, -53), logc |-> FMake(0, <<24576, 8844, 23791, 140>>, -56),
            logctail |-> FMake(1, <<7835, 11291, 18805, 169>>, -97)],
           [invc |-> FMake(0, <<0, 0, 0, 237>>, -53), logc |-> FMake(0, <<24576, 20387, 30678, 157>>, -56),
            logctail |-> FMake(0, <<20183, 19382, 8570, 230>>, -97)],
           [invc |-> FMake(0, <<0, 0, 0, 235>>, -53), logc |-> FMake(0, <<8192, 6959, 9577, 175>>, -56),
            logctail |-> FMake(1, <<7454, 30906, 9240, 227>>, -97)],
           [invc |-> FMake(0, <<0, 0, 0, 234>>, -53), logc |-> FMake(0, <<16384, 5589, 844, 184>>, -56),
            logctail |-> FMake(0, <<27954, 21307, 31286, 224>>, -101)],
           [invc |-> FMake(0, <<0, 0, 0, 232>>, -53), logc |-> FMake(0, <<16384, 15026, 19833, 201>>, -56),
            logctail |-> FMake(0, <<18394, 30074, 17776, 152>>, -97)],
           [invc |-> FMake(0, <<0, 0, 0, 230>>, -53), logc |-> FMake(0, <<24576, 7002, 11042, 219>>, -56),
            logctail |-> FMake(1, <<26853, 22510, 16896, 156>>, -98)],
           [invc |-> FMake(0, <<0, 0, 0, 229>>, -53), logc |-> FMake(0, <<16384, 888, 8544, 228>>, -56),
            logctail |-> FMake(0, <<11475, 3253, 6983, 178>>, -97)],
           [invc |-> FMake(0, <<0, 0, 0, 227>>, -53), logc |-> FMake(0, <<8192, 1556, 7398, 246>>, -56),
            logctail |-> FMake(1, <<17888, 24524, 418, 238>>, -97)],
           [invc |-> FMake(0, <<0, 0, 0, 226>>, -53), logc |-> FMake(0, <<24576, 29623, 8772, 255>>, -56),
            logctail |-> FMake(1, <<2813, 8002, 21337, 169>>, -97)],
           [invc |-> FMake(0, <<0, 0, 0, 224>>, -53), logc |-> FMake(0, <<24576, 1103, 24122, 136>>, -55),
            logctail |-> FMake(0, <<2034, 7258, 15843, 143>>, -97)],
           [invc |-> FMake(0, <<0, 0, 0, 223>>, -53), logc |-> FMake(0, <<28672, 31815, 10413, 141>>, -55),
            logctail |-> FMake(0, <<6452, 2161, 7737, 229>>, -97)],
           [invc |-> FMake(0, <<0, 0, 0, 221>>, -53), logc |-> FMake(0, <<0, 6413, 17796, 150>>, -55),
            logctail |-> FMake(0, <<13473, 5891, 30131, 156>>, -99)],
           [invc |-> FMake(0, <<0, 0, 0, 220>>, -53), logc |-> FMake(0, <<4096, 24619, 6130, 155>>, -55),
            logctail |-> FMake(0, <<29321, 18070, 16032, 177>>, -103)],
           [invc |-> FMake(0, <<0, 0, 0, 218>>, -53), logc |-> FMake(0, <<12288, 1639, 17654, 164>>, -55),
            logctail |-> FMake(0, <<13944, 10747, 3557, 172>>, -97)],
           [invc |-> FMake(0, <<0, 0, 0, 217>>, -53), logc |-> FMake(0, <<12288, 18755, 8087, 169>>, -55),
            logctail |-> FMake(0, <<32199, 19154, 20387, 177>>, -97)],
           [invc |-> FMake(0, <<0, 0, 0, 215>>, -53), logc |-> FMake(0, <<4096, 32024, 23866, 178>>, -55),
            logctail |-> FMake(0, <<11896, 22648, 15916, 206>>, -98)],
           [invc |-> FMake(0, <<0, 0, 0, 214>>, -53), logc |-> FMake(0, <<28672, 5866, 16458, 183>>, -55),
            logctail |-> FMake(1, <<8673, 19256, 17975, 168>>, -97)],
           [invc |-> FMake(0, <<0, 0, 0, 213>>, -53), logc |-> FMake(0, <<20480, 2696, 9782, 188>>, -55),
            logctail |-> FMake(1, <<17157, 24866, 6209, 227>>, -98)],
           [invc |-> FMake(0, <<0, 0, 0, 211>>, -53), logc |-> FMake(0, <<0, 22130, 31423, 197>>, -55),
            logctail |-> FMake(1, <<11473, 21970, 30034, 185>>, -99)],
           [invc |-> FMake(0, <<0, 0, 0, 210>>, -53), logc |-> FMake(0, <<0, 14830, 26987, 202>>, -55),
            logctail |-> FMake(0, <<32623, 12609, 18593, 191>>, -99)],
           [invc |-> FMake(0, <<0, 0, 0, 208>>, -53), logc |-> FMake(0, <<24576, 30997, 20404, 212>>, -55),
            logctail |-> FMake(1, <<8553, 8364, 18701, 195>>, -97)],
           [invc |-> FMake(0, <<0, 0, 0, 207>>, -53), logc |-> FMake(0, <<20480, 11959, 18273, 217>>, -55),
            logctail |-> FMake(1, <<25002, 7513, 22069, 225>>, -99)],
           [invc |-> FMake(0, <<0, 0, 0, 206>>, -53), logc |-> FMake(0, <<24576, 28791, 16924, 222>>, -55),
            logctail |-> FMake(1, <<4790, 12968, 12049, 234>>, -97)],
           [invc |-> FMake(0, <<0, 0, 0, 205>>, -53), logc |-> FMake(0, <<4096, 3552, 16367, 227>>, -55),
            logctail |-> FMake(1, <<11218, 2860, 12747, 143>>, -100)],
           [invc |-> FMake(0, <<0, 0, 0, 203>>, -53), logc |-> FMake(0, <<4096, 25001, 17654, 237>>, -55),
            logctail |-> FMake(1, <<12341, 28203, 31915, 215>>, -97)],
           [invc |-> FMake(0, <<0, 0, 0, 202>>, -53), logc |-> FMake(0, <<4096, 32718, 19515, 242>>, -55),
            logctail |-> FMake(0, <<29744, 16515, 18589, 144>>, -103)],
           [invc |-> FMake(0, <<0, 0, 0, 201>>, -53), logc |-> FMake(0, <<0, 18874, 22199, 247>>, -55),
            logctail |-> FMake(1, <<3601, 19319, 1109, 209>>, -103)],
           [invc |-> FMake(0, <<0, 0, 0, 200>>, -53), logc |-> FMake(0, <<12288, 22887, 25713, 252>>, -55),
            logctail |-> FMake(0, <<24368, 5145, 12211, 222>>, -98)],
           [invc |-> FMake(0, <<0, 0, 0, 198>>, -53), logc |-> FMake(0, <<22528, 16538, 17633, 131>>, -54),
            logctail |-> FMake(0, <<20113, 11738, 29548, 196>>, -100)],
           [invc |-> FMake(0, <<0, 0, 0, 197>>, -53), logc |-> FMake(0, <<24576, 20162, 4277, 134>>, -54),
            logctail |-> FMake(0, <<27369, 11385, 25132, 184>>, -97)],
           [invc |-> FMake(0, <<0, 0, 0, 196>>, -53), logc |-> FMake(0, <<26624, 1103, 24122, 136>>, -54),
            logctail |-> FMake(1, <<28700, 18251, 1081, 225>>, -97)],
           [invc |-> FMake(0, <<0, 0, 0, 195>>, -53), logc |-> FMake(0, <<30720, 5977, 11635, 139>>, -54),
            logctail |-> FMake(0, <<5761, 28490, 27447, 220>>, -97)],
           [invc |-> FMake(0, <<0, 0, 0, 194>>, -53), logc |-> FMake(0, <<26624, 18100, 32357, 141>>, -54),
            logctail |-> FMake(0, <<15799, 8847, 7093, 229>>, -97)],
           [invc |-> FMake(0, <<0, 0, 0, 193>>, -53), logc |-> FMake(0, <<14336, 23069, 20757, 144>>, -54),
            logctail |-> FMake(0, <<15082, 29837, 8058, 212>>, -99)],
           [invc |-> FMake(0, <<0, 0, 0, 191>>, -53), logc |-> FMake(0, <<4096, 31161, 31681, 149>>, -54),
            logctail |-> FMake(0, <<1268, 5280, 29673, 212>>, -97)],
           [invc |-> FMake(0, <<0, 0, 0, 190>>, -53), logc |-> FMake(0, <<24576, 17318, 21447, 152>>, -54),
            logctail |-> FMake(1, <<15544, 9794, 2539, 199>>, -97)],
           [invc |-> FMake(0, <<0, 0, 0, 189>>, -53), logc |-> FMake(0, <<4096, 28028, 11677, 155>>, -54),
            logctail |-> FMake(0, <<30664, 25058, 15158, 139>>, -98)],
           [invc |-> FMake(0, <<0, 0, 0, 188>>, -53), logc |-> FMake(0, <<12288, 28262, 2377, 158>>, -54),
            logctail |-> FMake(0, <<15708, 27661, 27986, 193>>, -98)],
           [invc |-> FMake(0, <<0, 0, 0, 187>>, -53), logc |-> FMake(0, <<26624, 18347, 26320, 160>>, -54),
            logctail |-> FMake(0, <<24733, 22817, 4315, 199>>, -99)],
           [invc |-> FMake(0, <<0, 0, 0, 186>>, -53), logc |-> FMake(0, <<18432, 1251, 17975, 163>>, -54),
            logctail |-> FMake(1, <<22133, 4815, 7992, 249>>, -97)],
           [invc |-> FMake(0, <<0, 0, 0, 185>>, -53), logc |-> FMake(0, <<12288, 15406, 10114, 166>>, -54),
            logctail |-> FMake(1, <<22692, 13845, 548, 241>>, -97)],
           [invc |-> FMake(0, <<0, 0, 0, 184>>, -53), logc |-> FMake(0, <<8192, 3697, 2744, 169>>, -54),
            logctail |-> FMake(0, <<18265, 713, 31170, 245>>, -97)],
           [invc |-> FMake(0, <<0, 0, 0, 183>>, -53), logc |-> FMake(0, <<20480, 10129, 28637, 171>>, -54),
            logctail |-> FMake(0, <<16623, 23738, 14263, 253>>, -98)],
           [invc |-> FMake(0, <<0, 0, 0, 182>>, -53), logc |-> FMake(0, <<24576, 16050, 22263, 174>>, -54),
            logctail |-> FMake(1, <<26076, 4424, 11432, 208>>, -99)] >>]

\* __exp_data: poly[i - 1] is the coefficient C_i; tab[j + 1].tail is the
\* library's tab[2j] as a double, the tail of 2^(j/128), and tab[j + 1].scale
\* is the mantissa in its tab[2j + 1] + (j << 45), the bit pattern of 2^(j/128)
exp_data ==
  [invln2N |-> FMake(0, <<766, 19031, 21789, 184>>, -45),
   shift |-> FMake(0, <<0, 0, 0, 192>>, 0),
   negln2hiN |-> FMake(1, <<0, 32244, 14603, 177>>, -60),
   negln2loN |-> FMake(1, <<15162, 31036, 24170, 231>>, -99),
   poly |-> << FMake(0, <<32189, 32767, 32767, 255>>, -54),
              FMake(0, <<21564, 10922, 21845, 170>>, -55),
              FMake(0, <<11153, 7726, 21847, 170>>, -57),
              FMake(0, <<20503, 20297, 17477, 136>>, -59) >>,
   tab |-> << [tail |-> FZero, scale |-> <<0, 0, 0, 128>>],
           [tail |-> FMake(0, <<16238, 13585, 27964, 217>>, -106), scale |-> <<13109, 21494, 22774, 128>>],
           [tail |-> FMake(1, <<23645, 14769, 78, 139>>, -108), scale |-> <<97, 31983, 12904, 129>>],
           [tail |-> FMake(1, <<26321, 8462, 31208, 130>>, -106), scale |-> <<32645, 20700, 3159, 130>>],
           [tail |-> FMake(0, <<30227, 27343, 18760, 230>>, -107), scale |-> <<1396, 9771, 26307, 130>>],
           [tail |-> FMake(1, <<3834, 18419, 14848, 222>>, -107), scale |-> <<30430, 21435, 16812, 131>>],
           [tail |-> FMake(0, <<18529, 17357, 23865, 135>>, -109), scale |-> <<7112, 12523, 7444, 132>>],
           [tail |-> FMake(0, <<21401, 13927, 3985, 133>>, -106), scale |-> <<29571, 5517, 30971, 132>>],
           [tail |-> FMake(0, <<31597, 15110, 27289, 188>>, -106), scale |-> <<2319, 23027, 21857, 133>>],
           [tail |-> FMake(0, <<28668, 9723, 21610, 245>>, -107), scale |-> <<18423, 22244, 12872, 134>>],
           [tail |-> FMake(0, <<7377, 24671, 30965, 245>>, -112), scale |-> <<20898, 26023, 4016, 135>>],
           [tail |-> FMake(1, <<28171, 4896, 3282, 208>>, -109), scale |-> <<21275, 24573, 28058, 135>>],
           [tail |-> FMake(1, <<15630, 21599, 22856, 170>>, -106), scale |-> <<23377, 8228, 19463, 136>>],
           [tail |-> FMake(1, <<27221, 6301, 958, 132>>, -110), scale |-> <<12748, 216, 10999, 137>>],
           [tail |-> FMake(1, <<29718, 29611, 9358, 142>>, -106), scale |-> <<11744, 23890, 2666, 138>>],
           [tail |-> FMake(0, <<21935, 21176, 20367, 134>>, -107), scale |-> <<3665, 4427, 27235, 138>>],
           [tail |-> FMake(1, <<4936, 21835, 27735, 128>>, -107), scale |-> <<20859, 30970, 19168, 139>>],
           [tail |-> FMake(1, <<12861, 11196, 32705, 248>>, -107), scale |-> <<3562, 28953, 11236, 140>>],
           [tail |-> FMake(0, <<21439, 32294, 9776, 220>>, -107), scale |-> <<19317, 22239, 3439, 141>>],
           [tail |-> FMake(1, <<27430, 27683, 26225, 182>>, -106), scale |-> <<23764, 2056, 28546, 141>>],
           [tail |-> FMake(0, <<12128, 31860, 13276, 215>>, -106), scale |-> <<14762, 25297, 21020, 142>>],
           [tail |-> FMake(1, <<14493, 5900, 7691, 255>>, -107), scale |-> <<22813, 17913, 13632, 143>>],
           [tail |-> FMake(0, <<17293, 2381, 15621, 211>>, -107), scale |-> <<3286, 4293, 6382, 144>>],
           [tail |-> FMake(0, <<1149, 25032, 26646, 131>>, -107), scale |-> <<23702, 8955, 32038, 144>>],
           [tail |-> FMake(0, <<10388, 18257, 15351, 180>>, -106), scale |-> <<25144, 23786, 25065, 145>>],
           [tail |-> FMake(0, <<18557, 25832, 30819, 186>>, -107), scale |-> <<9791, 8037, 18233, 146>>],
           [tail |-> FMake(0, <<26610, 12351, 7342, 130>>, -107), scale |-> <<31965, 19396, 11541, 147>>],
           [tail |-> FMake(1, <<2142, 32482, 25068, 181>>, -106), scale |-> <<25473, 17386, 4991, 148>>],
           [tail |-> FMake(0, <<11057, 23059, 24453, 151>>, -107), scale |-> <<24289, 27199, 31351, 148>>],
           [tail |-> FMake(1, <<16378, 13535, 1644, 233>>, -112), scale |-> <<22928, 8629, 25087, 149>>],
           [tail |-> FMake(0, <<2740, 25624, 24073, 217>>, -107), scale |-> <<779, 19912, 18966, 150>>],
           [tail |-> FMake(0, <<19343, 5021, 21066, 240>>, -109), scale |-> <<12118, 21116, 12990, 151>>],
           [tail |-> FMake(0, <<11190, 7009, 13781, 154>>, -107), scale |-> <<14101, 5219, 7160, 152>>],
           [tail |-> FMake(0, <<29772, 17752, 2055, 178>>, -107), scale |-> <<22577, 30873, 1475, 153>>],
           [tail |-> FMake(0, <<30794, 15271, 29925, 254>>, -107), scale |-> <<5887, 25800, 28706, 153>>],
           [tail |-> FMake(1, <<23300, 30492, 3584, 181>>, -107), scale |-> <<8177, 16165, 23317, 154>>],
           [tail |-> FMake(1, <<20584, 6294, 11191, 146>>, -106), scale |-> <<10699, 28277, 18076, 155>>],
           [tail |-> FMake(1, <<11662, 13986, 8160, 200>>, -106), scale |-> <<22630, 23051, 12985, 156>>],
           [tail |-> FMake(1, <<14034, 32040, 18336, 142>>, -108), scale |-> <<8183, 27083, 8044, 157>>],
           [tail |-> FMake(1, <<6933, 26524, 25702, 200>>, -106), scale |-> <<10469, 1575, 3255, 158>>],
           [tail |-> FMake(0, <<19565, 20052, 32034, 172>>, -107), scale |-> <<13346, 6180, 31385, 158>>],
           [tail |-> FMake(1, <<27018, 29776, 18817, 152>>, -106), scale |-> <<28, 2393, 26900, 159>>],
           [tail |-> FMake(1, <<2395, 4143, 7741, 197>>, -110), scale |-> <<11818, 17390, 22568, 160>>],
           [tail |-> FMake(1, <<6683, 20115, 12909, 225>>, -108), scale |-> <<10391, 12961, 18391, 161>>],
           [tail |-> FMake(0, <<11281, 16773, 4021, 155>>, -111), scale |-> <<2349, 16579, 14369, 162>>],
           [tail |-> FMake(0, <<25839, 30220, 6180, 179>>, -106), scale |-> <<87, 23098, 10503, 163>>],
           [tail |-> FMake(0, <<889, 13634, 13191, 246>>, -109), scale |-> <<15568, 27522, 6794, 164>>],
           [tail |-> FMake(0, <<4656, 32286, 32312, 159>>, -106), scale |-> <<21470, 25007, 3243, 165>>],
           [tail |-> FMake(0, <<12208, 30453, 17210, 180>>, -108), scale |-> <<10791, 10860, 32619, 165>>],
           [tail |-> FMake(0, <<24695, 22185, 30455, 152>>, -106), scale |-> <<23821, 13307, 29386, 166>>],
           [tail |-> FMake(1, <<9102, 227, 20688, 252>>, -107), scale |-> <<11431, 27962, 26313, 167>>],
           [tail |-> FMake(1, <<9033, 14631, 31539, 190>>, -107), scale |-> <<26178, 17822, 23402, 168>>],
           [tail |-> FMake(1, <<14431, 31262, 31514, 198>>, -108), scale |-> <<20354, 11578, 20653, 169>>],
           [tail |-> FMake(1, <<23798, 22774, 18715, 176>>, -107), scale |-> <<4623, 5307, 18067, 170>>],
           [tail |-> FMake(0, <<22414, 12795, 21524, 153>>, -106), scale |-> <<10202, 28010, 15644, 171>>],
           [tail |-> FMake(0, <<6917, 24341, 25308, 220>>, -108), scale |-> <<18429, 10543, 13387, 172>>],
           [tail |-> FMake(0, <<21513, 17464, 3975, 131>>, -106), scale |-> <<21545, 14992, 11295, 173>>],
           [tail |-> FMake(0, <<18154, 8243, 7701, 166>>, -112), scale |-> <<18103, 5298, 9370, 174>>],
           [tail |-> FMake(0, <<16437, 22217, 19352, 161>>, -106), scale |-> <<8520, 11098, 7612, 175>>],
           [tail |-> FMake(1, <<30367, 17202, 4393, 231>>, -107), scale |-> <<23561, 29421, 6022, 176>>],
           [tail |-> FMake(1, <<19880, 30686, 20244, 225>>, -107), scale |-> <<21893, 24692, 4602, 177>>],
           [tail |-> FMake(1, <<27054, 4695, 19938, 162>>, -107), scale |-> <<17184, 27033, 3352, 178>>],
           [tail |-> FMake(1, <<22616, 28844, 15221, 158>>, -106), scale |-> <<8741, 1194, 2274, 179>>],
           [tail |-> FMake(0, <<6500, 252, 17066, 184>>, -110), scale |-> <<10611, 10393, 1367, 180>>],
           [tail |-> FMake(1, <<8744, 32444, 20414, 157>>, -106), scale |-> <<15309, 19710, 633, 181>>],
           [tail |-> FMake(1, <<14722, 3689, 19126, 208>>, -109), scale |-> <<23231, 27159, 73, 182>>],
           [tail |-> FMake(1, <<10734, 28891, 8126, 155>>, -109), scale |-> <<6703, 30922, 32456, 182>>],
           [tail |-> FMake(1, <<2129, 10689, 28917, 134>>, -107), scale |-> <<5252, 29347, 32247, 183>>],
           [tail |-> FMake(1, <<16079, 31924, 32145, 192>>, -108), scale |-> <<24436, 20952, 32215, 184>>],
           [tail |-> FMake(1, <<32176, 278, 14635, 183>>, -107), scale |-> <<372, 4427, 32361, 185>>],
           [tail |-> FMake(1, <<26250, 15531, 25800, 176>>, -107), scale |-> <<26569, 11396, 32685, 186>>],
           [tail |-> FMake(0, <<21715, 15379, 29485, 132>>, -106), scale |-> <<23871, 8124, 421, 188>>],
           [tail |-> FMake(1, <<9501, 29339, 19314, 217>>, -108), scale |-> <<391, 26582, 1105, 189>>],
           [tail |-> FMake(0, <<16491, 10447, 13301, 167>>, -106), scale |-> <<16690, 609, 1972, 190>>],
           [tail |-> FMake(0, <<27733, 22444, 12166, 175>>, -109), scale |-> <<20066, 28062, 3020, 191>>],
           [tail |-> FMake(1, <<20290, 24423, 1812, 197>>, -107), scale |-> <<6674, 10364, 4253, 192>>],
           [tail |-> FMake(1, <<14132, 25206, 9947, 155>>, -106), scale |-> <<19987, 12953, 5670, 193>>],
           [tail |-> FMake(1, <<32542, 29747, 31248, 130>>, -107), scale |-> <<18349, 3143, 7273, 194>>],
           [tail |-> FMake(1, <<22382, 12516, 20803, 166>>, -106), scale |-> <<4845, 13961, 9062, 195>>],
           [tail |-> FMake(0, <<2560, 13853, 13725, 133>>, -106), scale |-> <<26265, 13076, 11039, 196>>],
           [tail |-> FMake(0, <<27316, 993, 23743, 237>>, -107), scale |-> <<8411, 1109, 13205, 197>>],
           [tail |-> FMake(1, <<26623, 14731, 22914, 173>>, -109), scale |-> <<17548, 11626, 15560, 198>>],
           [tail |-> FMake(0, <<24388, 13286, 23053, 223>>, -108), scale |-> <<30518, 12842, 18106, 199>>],
           [tail |-> FMake(1, <<15747, 20028, 9342, 152>>, -106), scale |-> <<32710, 5923, 20844, 200>>],
           [tail |-> FMake(1, <<7721, 5848, 9954, 237>>, -110), scale |-> <<17893, 24987, 23774, 201>>],
           [tail |-> FMake(1, <<14681, 31009, 4069, 225>>, -109), scale |-> <<21007, 6032, 26899, 202>>],
           [tail |-> FMake(1, <<31146, 17897, 3340, 146>>, -106), scale |-> <<20048, 16316, 30218, 203>>],
           [tail |-> FMake(1, <<3659, 11981, 10675, 174>>, -107), scale |-> <<1978, 24980, 965, 205>>],
           [tail |-> FMake(0, <<20007, 22307, 16368, 141>>, -108), scale |-> <<28816, 1351, 4678, 206>>],
           [tail |-> FMake(0, <<29627, 16916, 18647, 238>>, -109), scale |-> <<8995, 13254, 8588, 207>>],
           [tail |-> FMake(1, <<8803, 17604, 5136, 190>>, -107), scale |-> <<25957, 30395, 12697, 208>>],
           [tail |-> FMake(0, <<12757, 18372, 29211, 216>>, -107), scale |-> <<11571, 22676, 17007, 209>>],
           [tail |-> FMake(1, <<15125, 10105, 28487, 141>>, -106), scale |-> <<9565, 25724, 21518, 210>>],
           [tail |-> FMake(0, <<12754, 14812, 12486, 134>>, -106), scale |-> <<13144, 9825, 26232, 211>>],
           [tail |-> FMake(0, <<23219, 23782, 9745, 163>>, -107), scale |-> <<32191, 10995, 31149, 212>>],
           [tail |-> FMake(1, <<7604, 12061, 32566, 150>>, -107), scale |-> <<29562, 32679, 3502, 214>>],
           [tail |-> FMake(0, <<13191, 9622, 27102, 224>>, -107), scale |-> <<21421, 12981, 8830, 215>>],
           [tail |-> FMake(1, <<23034, 5539, 28221, 131>>, -106), scale |-> <<13926, 21275, 14364, 216>>],
           [tail |-> FMake(1, <<11962, 11705, 3941, 174>>, -110), scale |-> <<5627, 28830, 20106, 217>>],
           [tail |-> FMake(1, <<30272, 31565, 4152, 133>>, -106), scale |-> <<22842, 7114, 26058, 218>>],
           [tail |-> FMake(1, <<4916, 29019, 23504, 198>>, -109), scale |-> <<24135, 26102, 32219, 219>>],
           [tail |-> FMake(1, <<2613, 22193, 15241, 143>>, -106), scale |-> <<1610, 24898, 5824, 221>>],
           [tail |-> FMake(0, <<24013, 5311, 32604, 167>>, -108), scale |-> <<16850, 8343, 12410, 222>>],
           [tail |-> FMake(1, <<6316, 29989, 30703, 141>>, -106), scale |-> <<7689, 14254, 19209, 223>>],
           [tail |-> FMake(0, <<3251, 24926, 15032, 155>>, -108), scale |-> <<21148, 15114, 26223, 224>>],
           [tail |-> FMake(0, <<32148, 14655, 3273, 247>>, -107), scale |-> <<20602, 16383, 685, 226>>],
           [tail |-> FMake(0, <<22956, 8722, 575, 167>>, -107), scale |-> <<20811, 23727, 8132, 227>>],
           [tail |-> FMake(0, <<6759, 28828, 14012, 158>>, -109), scale |-> <<26549, 10253, 15798, 228>>],
           [tail |-> FMake(0, <<6504, 22820, 11441, 187>>, -109), scale |-> <<4201, 14815, 23683, 229>>],
           [tail |-> FMake(1, <<13778, 1945, 10338, 132>>, -107), scale |-> <<17402, 10939, 31789, 230>>],
           [tail |-> FMake(1, <<31343, 32767, 13684, 253>>, -107), scale |-> <<2428, 5135, 7349, 232>>],
           [tail |-> FMake(1, <<10569, 28907, 14008, 128>>, -106), scale |-> <<2546, 4123, 15900, 233>>],
           [tail |-> FMake(0, <<1959, 19578, 3606, 165>>, -108), scale |-> <<9351, 14839, 24675, 234>>],
           [tail |-> FMake(1, <<8719, 16512, 18040, 148>>, -107), scale |-> <<920, 11667, 908, 236>>],
           [tail |-> FMake(0, <<4780, 11139, 26947, 242>>, -107), scale |-> <<12933, 1974, 10136, 237>>],
           [tail |-> FMake(0, <<27467, 22530, 26982, 161>>, -107), scale |-> <<13408, 26115, 19591, 238>>],
           [tail |-> FMake(1, <<15903, 3944, 21636, 150>>, -107), scale |-> <<7007, 26359, 29276, 239>>],
           [tail |-> FMake(1, <<3529, 30350, 10980, 201>>, -107), scale |-> <<8489, 10731, 6424, 241>>],
           [tail |-> FMake(0, <<2259, 16501, 22545, 165>>, -108), scale |-> <<16374, 20246, 16571, 242>>],
           [tail |-> FMake(0, <<29297, 9018, 6065, 158>>, -107), scale |-> <<19587, 30606, 26951, 243>>],
           [tail |-> FMake(1, <<4592, 8103, 23626, 255>>, -107), scale |-> <<4314, 17737, 4798, 245>>],
           [tail |-> FMake(1, <<29821, 17478, 14947, 237>>, -107), scale |-> <<26609, 23324, 15648, 246>>],
           [tail |-> FMake(0, <<8200, 852, 3825, 246>>, -107), scale |-> <<23079, 23746, 26735, 247>>],
           [tail |-> FMake(0, <<27442, 1875, 11859, 161>>, -107), scale |-> <<14999, 28375, 5292, 249>>],
           [tail |-> FMake(0, <<1518, 25507, 4772, 211>>, -107), scale |-> <<17728, 14044, 16857, 250>>],
           [tail |-> FMake(1, <<25581, 18551, 24299, 241>>, -107), scale |-> <<15892, 23353, 28662, 251>>],
           [tail |-> FMake(0, <<19869, 6947, 9453, 188>>, -108), scale |-> <<4312, 829, 7942, 253>>],
           [tail |-> FMake(0, <<19593, 705, 5893, 152>>, -110), scale |-> <<29169, 22302, 20232, 254>>] >>]

\* OFF = 0x3fe6955500000000: its fraction bits under the implicit leading bit
Off == <<0, 0, 21844, 180>>

\* log_inline(ix): tmp = ix - OFF, k = tmp >> 52, i = (tmp >> 45) % 128 and
\* z = asdouble(ix - (tmp & 0xfff << 52)), so that x = z * 2^k with z in
\* [OFF, 2*OFF); LogBelow is 1 when the fraction of x is below that of OFF.
\* Then r = fma(z, invc, -1.0), t1 = kd*Ln2hi + logc, t2 = t1 + r,
\* lo1 = kd*Ln2lo + logctail, lo2 = t1 - t2 + r, ar = A[0]*r, ar2 = r*ar,
\* ar3 = r*ar2, hi = t2 + ar2, lo3 = fma(ar, r, -ar2), lo4 = t2 - hi + ar2,
\* p = ar3*(A[1] + r*A[2] + ar2*(A[3] + r*A[4] + ar2*(A[5] + r*A[6]))),
\* lo = lo1 + lo2 + lo3 + lo4 + p, y = hi + lo, tail = hi - y + lo; the
\* value is <<y, tail>>.
LogBelow(x) == IF BCmp(x.m, Off) < 0 THEN 1 ELSE 0
LogLo(hi, lo) == <<FAdd(hi, lo), FAdd(FSub(hi, FAdd(hi, lo)), lo)>>
LogHi(lo123, r, t2, ar2, hi, A) ==
  LogLo(hi, FFma(FMul(r, ar2),
                 FFma(ar2,
                      FFma(FFma(r, A[7], A[6]), ar2, FFma(r, A[5], A[4])),
                      FFma(r, A[3], A[2])),
                 FAdd(lo123, FAdd(FSub(t2, hi), ar2))))
LogAr2(lo12, r, ar, t2, ar2, A) ==
  LogHi(FAdd(lo12, FFma(ar, r, FNeg(ar2))), r, t2, ar2, FAdd(t2, ar2), A)
LogR(lo1, t1, r, A) ==
  LogAr2(FAdd(lo1, FAdd(FSub(t1, FAdd(r, t1)), r)), r, FMul(r, A[1]),
         FAdd(r, t1), FMul(r, FMul(r, A[1])), A)
LogOf(kd, z, d, row) ==
  LogR(FFma(kd, d.ln2lo, row.logctail), FFma(kd, d.ln2hi, row.logc),
       FFma(z, row.invc, FFromInt(0 - 1)), d.poly)
\* d is pow_log_data
log_inline(x, d) ==
  LogOf(FFromInt(x.e + PREC - LogBelow(x)), FMake(0, x.m, LogBelow(x) - PREC), d,
        d.tab[1 + BToInt(BShr(BSub(x.m, IF LogBelow(x) = 1
                                          THEN BSub(Off, <<0, 0, 0, 128>>)
                                          ELSE Off), 45))])

One == FFromInt(1)
\* a * 2^n
FScaled(a, n) == IF a.m = <<>> THEN a ELSE [a EXCEPT !.e = @ + n]

\* exp_inline(x, xtail, 0): kd = eval_as_double(z + Shift) - Shift is the
\* integer n nearest to z = InvLn2N * x, and ki % N = n % N = j;
\* r = x + kd*NegLn2hiN + kd*NegLn2loN + xtail,
\* tmp = tail + r + r2*(C2 + r*C3) + r2*r2*(C4 + r*C5), and
\* scale = asdouble(T[2j + 1] + (ki << 45)) is 2^(j/N) rounded, times
\* 2^((n - j)/N); for |x| < 2^9 the result is scale + scale*tmp.
\* d is exp_data.
ExpTmp(r, C, tail) ==
  FFma(FFma(r, C[4], C[3]), FMul(FMul(r, r), FMul(r, r)),
       FFma(FFma(r, C[2], C[1]), FMul(r, r), FAdd(r, tail)))
ExpScale(n, row) == FMake(0, row.scale, ((n - (n % 128)) \div 128) - (PREC - 1))

\* specialcase(tmp, sbits, ki) for k < 0, in the library's scaling by
\* 2^1022: y = scale + scale*tmp is at least 1.0 (the result is a normal
\* double), or is rounded as a subnormal is: lo = scale - y + scale*tmp,
\* hi = 1.0 + y, lo = 1.0 - hi + y + lo, y = (hi + lo) - 1.0.  p is
\* scale*tmp rounded: this multiply-add is not fused.
ExpSubnormal(y, lo) ==
  FSub(FAdd(FAdd(One, y), FAdd(FAdd(FSub(One, FAdd(One, y)), y), lo)), One)
ExpBelow(scale, p, y) ==
  FScaled(IF FCmp(y, One) < 0 THEN ExpSubnormal(y, FAdd(FSub(scale, y), p)) ELSE y,
          0 - 1022)
\* specialcase for k >= 0: the result is scale + scale*tmp, and HUGE_VAL
\* (written [k |-> "inf"]) from 2^1024 on
ExpAbove(y) == IF y.e + PREC > 1024 THEN [k |-> "inf"] ELSE y
\* 2^9 <= |x| < 2^10 (abstop = 0) takes specialcase
ExpPath(tmp, scale, n, special) ==
  IF ~special THEN FFma(tmp, scale, scale)
  ELSE IF n >= 0 THEN ExpAbove(FFma(tmp, scale, scale))
  ELSE ExpBelow(FScaled(scale, 1022), FMul(tmp, FScaled(scale, 1022)),
                FAdd(FScaled(scale, 1022), FMul(tmp, FScaled(scale, 1022))))
ExpAt(r, n, C, row, special) ==
  ExpPath(ExpTmp(r, C, row.tail), ExpScale(n, row), n, special)
ExpFrom(x, xtail, kd, d) ==
  ExpAt(FAdd(xtail, FFma(kd, d.negln2loN, FFma(kd, d.negln2hiN, x))),
        FTrunc(kd), d.poly, d.tab[1 + (FTrunc(kd) % 128)], x.e + PREC > 9)
\* |x| < 2^-54: 1.0 + x, which is 1.0; |x| >= 2^10: __math_uflow, 0.0, or
\* __math_oflow, HUGE_VAL
exp_inline(x, xtail, d) ==
  IF x.m = <<>> \/ x.e + PREC < 0 - 53 THEN One
  ELSE IF x.e + PREC > 10 THEN (IF x.s = 1 THEN FZero ELSE [k |-> "inf"])
  ELSE ExpFrom(x, xtail, FSub(FFma(x, d.invln2N, d.shift), d.shift), d)

\* pow(x, y) for a finite x > 0: with <<hi, lo>> from log_inline,
\* ehi = y*hi, elo = y*lo + fma(y, hi, -ehi), and the value is
\* exp_inline(ehi, elo, 0)
PowLog(y, l) ==
  exp_inline(FMul(y, l[1]), FFma(y, l[2], FFma(l[1], y, FNeg(FMul(y, l[1])))), exp_data)
pow(x, y) == PowLog(y, log_inline(x, pow_log_data))

\* float_pow(v, w) for w > 0: 0.0 for v == 0.0 and 1.0 or -1.0 for
\* float_pow(v, w) for a float v and w = 2, 3 or 3/2: a NaN is returned as
\* it is, an infinity as +Inf or, for an odd integer w, as itself, and 0.0
\* as 0.0;
\* |v| == 1.0 without a call of pow; otherwise ix = pow(|v|, w), negated
\* for v < 0 and an odd integer w, and OverflowError when ix is HUGE_VAL.
\* (A negative v with a w that is no integer has a complex power; the
\* programs take v ** (3/2) of a sum of squares only.)
PowResult(ix, negate_result) ==
  IF ix.k = "inf" THEN [k |-> "OverflowError"]
  ELSE IF negate_result THEN FNeg(ix) ELSE ix
float_pow(iv, iw) ==
  IF iv.k = "nan" THEN iv
  ELSE IF iv.k = "inf" THEN (IF FOddInt(iw) THEN iv ELSE [k |-> "inf", s |-> 0])
  ELSE IF iv.m = <<>> THEN FZero
  ELSE IF [iv EXCEPT !.s = 0] = One THEN (IF iv.s = 1 /\ FOddInt(iw) THEN FNeg(One) ELSE One)
  ELSE PowResult(pow([iv EXCEPT !.s = 0], iw), iv.s = 1 /\ FOddInt(iw))

\* a ** 2, a ** 3 and a ** (3/2)
FPow2(a) == float_pow(a, FFromInt(2))
FPow3(a) == float_pow(a, FFromInt(3))
FPow32(a) == float_pow(a, FDiv(FFromInt(3), FFromInt(2)))

(***************************************************************************)
(* Exact rationals (-1)^s * n/d in lowest terms, n and d bignums, d > 0.   *)
(***************************************************************************)
BMod(a, d) == BShr(BDivMod(a, d)[2], LIMB - BitLenSmall(d[Len(d)]))

RECURSIVE BGcd(_, _)
BGcd(a, b) == IF b = <<>> THEN a ELSE BGcd(b, BMod(a, b))

QZero == [k |-> "q", s |-> 0, n |-> <<>>, d |-> <<1>>]

QOf(s, nd) == [k |-> "q", s |-> s, n |-> nd[1], d |-> nd[2]]

\* the products a[1]*b[1], ..., and the quotients nd[1]/g, nd[2]/g
BMulEach(a, b) == [i \in DOMAIN a |-> BMul(a[i], b[i])]
BDivEach(nd, g) == [i \in DOMAIN nd |-> BDivMod(nd[i], g)[1]]

QMake(s, n, d) == IF n = <<>> THEN QZero ELSE QOf(s, BDivEach(<<n, d>>, BGcd(n, d)))

QFromInt(n) ==
  IF n = 0 THEN QZero
  ELSE QOf(IF n < 0 THEN 1 ELSE 0, <<BFromInt(IF n < 0 THEN 0 - n ELSE n), <<1>> >>)
QNeg(a) == IF a.n = <<>> THEN a ELSE [a EXCEPT !.s = 1 - a.s]

\* (-1)^sa * p[1] + (-1)^sb * p[2], over p[3], for
\* p = <<a.n * b.d, b.n * a.d, a.d * b.d>>
QCross(sa, sb, p) ==
  QMake(IF sa = sb \/ BCmp(p[1], p[2]) >= 0 THEN sa ELSE sb,
        IF sa = sb THEN BAdd(p[1], p[2])
        ELSE IF BCmp(p[1], p[2]) >= 0 THEN BSub(p[1], p[2]) ELSE BSub(p[2], p[1]),
        p[3])
QAdd(a, b) == QCross(a.s, b.s, BMulEach(<<a.n, b.n, a.d>>, <<b.d, a.d, b.d>>))
QMul(a, b) == QMake((a.s + b.s) % 2, BMul(a.n, b.n), BMul(a.d, b.d))
QDiv(a, b) == QMake((a.s + b.s) % 2, BMul(a.n, b.d), BMul(a.d, b.n))
QSign(a) == IF a.n = <<>> THEN 0 ELSE 1 - 2 * a.s
\* -1, 0, 1 as a < b, a = b, a > b
QCmp(a, b) ==
  IF QSign(a) # QSign(b) THEN (IF QSign(a) < QSign(b) THEN 0 - 1 ELSE 1)
  ELSE QSign(a) * BCmp(BMul(a.n, b.d), BMul(b.n, a.d))
QTrunc(a) == QSign(a) * BToInt(BDivMod(a.n, a.d)[1])

\* the exact root of a >= 0; it has a value only when a is the square of a
\* rational, and the exact configurations keep every separation rational
QRooted(nd, r) ==
  IF BMulEach(r, r) = nd THEN QOf(0, r) ELSE CHOOSE q \in {} : TRUE
QSqrt(a) == QRooted(<<a.n, a.d>>, <<BIsqrt(a.n), BIsqrt(a.d)>>)
\* powers of a fraction in lowest terms are in lowest terms
QPow2(a) == QOf(0, BMulEach(<<a.n, a.d>>, <<a.n, a.d>>))
QPow3(a) == QOf(a.s, BMulEach(<<a.n, a.d>>, BMulEach(<<a.n, a.d>>, <<a.n, a.d>>)))
QPow32(a) == QPow3(QSqrt(a))

(***************************************************************************)
(* Python's arithmetic, exact or binary64 by the kind of the operands.  A  *)
(* float is a finite double [k |-> "f", ...], an infinity                  *)
(* [k |-> "inf", s] or [k |-> "nan"]; a double below 2^-1022 is held like  *)
(* the others, with a mantissa of 53 bits that ends in zeros.  +, -, * and *)
(* / round once, to the doubles: to a multiple of 2^-1074 below 2^-1022,   *)
(* to an infinity from 2^1024 on.  An operand that is a raised exception   *)
(* is the value of the expression: the first one in the order of           *)
(* evaluation.                                                             *)
(***************************************************************************)
Raised(a) == a.k \notin {"q", "f", "inf", "nan"}

\* the finite result r of a rounding to 53 bits, as a double
Double(r) == IF r.m # <<>> /\ r.e + PREC > 1024 THEN [k |-> "inf", s |-> r.s] ELSE r

\* the double nearest to (-1)^s * (m + f) * 2^e where that is below 2^-1022:
\* the bits of m from bit sh = -1074 - e on, rounded to nearest-even
DDenormal(s, m, sh, sticky) ==
  FRound(s,
         IF BBit(m, sh - 1) = 1 /\ (sticky \/ BLowNonZero(m, sh - 1) \/ BBit(m, sh) = 1)
           THEN BAdd(BShr(m, sh), <<1>>) ELSE BShr(m, sh),
         0 - 1074, FALSE)

\* the double nearest to (-1)^s * (m + f) * 2^e, where 0 <= f < 1 and f # 0
\* exactly if sticky
DRound(s, m, e, sticky) ==
  IF e >= 0 - 1074 \/ e + BBitLen(m) - PREC >= 0 - 1074 THEN Double(FRound(s, m, e, sticky))
  ELSE DDenormal(s, m, 0 - 1074 - e, sticky)

NNeg(a) ==
  IF Raised(a) \/ a.k = "nan" THEN a
  ELSE IF a.k = "q" THEN QNeg(a)
  ELSE IF a.k = "inf" THEN [a EXCEPT !.s = 1 - @]
  ELSE FNeg(a)
NAdd(a, b) ==
  IF Raised(a) THEN a ELSE IF Raised(b) THEN b
  ELSE IF a.k = "q" THEN QAdd(a, b)
  ELSE IF a.k = "nan" \/ b.k = "nan" THEN [k |-> "nan"]
  ELSE IF a.k = "inf" THEN (IF b.k = "inf" /\ b.s # a.s THEN [k |-> "nan"] ELSE a)
  ELSE IF b.k = "inf" THEN b
  ELSE Double(FAdd(a, b))
NSub(a, b) == NAdd(a, NNeg(b))
NIsZero(a) == IF a.k = "q" THEN a.n = <<>> ELSE a.k = "f" /\ a.m = <<>>
NMul(a, b) ==
  IF Raised(a) THEN a ELSE IF Raised(b) THEN b
  ELSE IF a.k = "q" THEN QMul(a, b)
  ELSE IF a.k = "nan" \/ b.k = "nan" THEN [k |-> "nan"]
  ELSE IF a.k = "inf" \/ b.k = "inf"
    THEN (IF NIsZero(a) \/ NIsZero(b) THEN [k |-> "nan"]
          ELSE [k |-> "inf", s |-> (a.s + b.s) % 2])
  ELSE IF a.m = <<>> \/ b.m = <<>> THEN FZero
  ELSE DRound((a.s + b.s) % 2, BMul(a.m, b.m), a.e + b.e, FALSE)
\* a / b: float_div raises ZeroDivisionError for b == 0.0 before it divides
NDiv(a, b) ==
  IF Raised(a) THEN a ELSE IF Raised(b) THEN b
  ELSE IF NIsZero(b) THEN [k |-> "ZeroDivisionError"]
  ELSE IF a.k = "q" THEN QDiv(a, b)
  ELSE IF a.k = "nan" \/ b.k = "nan" THEN [k |-> "nan"]
  ELSE IF a.k = "inf"
    THEN (IF b.k = "inf" THEN [k |-> "nan"] ELSE [k |-> "inf", s |-> (a.s + b.s) % 2])
  ELSE IF b.k = "inf" \/ a.m = <<>> THEN FZero
  ELSE DRound((a.s + b.s) % 2, BDivMod(BShl(a.m, PREC + 3), b.m)[1], a.e - b.e - (PREC + 3),
              BDivMod(BShl(a.m, PREC + 3), b.m)[2] # <<>>)
\* a < b: false when an operand is a NaN
NLt(a, b) ==
  IF a.k = "q" THEN QCmp(a, b) < 0
  ELSE IF a.k = "nan" \/ b.k = "nan" THEN FALSE
  ELSE IF a.k = "inf" THEN a.s = 1 /\ ~(b.k = "inf" /\ b.s = 1)
  ELSE IF b.k = "inf" THEN b.s = 0
  ELSE FCmp(a, b) < 0
\* math.sqrt(a), which raises ValueError for a < 0
NSqrt(a) ==
  IF Raised(a) \/ a.k = "nan" THEN a
  ELSE IF a.k = "q" THEN QSqrt(a)
  ELSE IF a.s = 1 /\ ~NIsZero(a) THEN [k |-> "ValueError"]
  ELSE IF a.k = "inf" THEN a
  ELSE FSqrt(a)
NPow2(a) == IF Raised(a) THEN a ELSE IF a.k = "q" THEN QPow2(a) ELSE FPow2(a)
NPow3(a) == IF Raised(a) THEN a ELSE IF a.k = "q" THEN QPow3(a) ELSE FPow3(a)
NPow32(a) == IF Raised(a) THEN a ELSE IF a.k = "q" THEN QPow32(a) ELSE FPow32(a)
\* int(a) for a finite a
NTrunc(a) == IF a.k = "q" THEN QTrunc(a) ELSE FTrunc(a)

\* the integer n in the arithmetic `kind', and the decimal literal n / 10^p
NInt(kind, n) == IF kind = "q" THEN QFromInt(n) ELSE FFromInt(n)
NDec(kind, n, p) == IF p = 0 THEN NInt(kind, n) ELSE NDiv(NInt(kind, n), NInt(kind, 10 ^ p))

(***************************************************************************)
(* The programs.  A Body is [M, x, y, vx, vy].                             *)
(***************************************************************************)
Body(M, bx, by, bvx, bvy) == [M |-> M, x |-> bx, y |-> by, vx |-> bvx, vy |-> bvy]

Fields == {"M", "x", "y", "vx", "vy"}

\* (rhs.x - self.x)**2 + (rhs.y - self.y)**2, from the two squares
Squares(sq) == NAdd(sq.x, sq.y)
SumOfSquares(self, rhs) == Squares([c \in {"x", "y"} |-> NPow2(NSub(rhs[c], self[c]))])

\* rk_3body.py Body.distance
Distance(self, rhs) == NSqrt(SumOfSquares(self, rhs))

\* rcubed as rk_nbody.py f1 computes it: (dx**2 + dy**2)**(3/2)
RCubed1(lhs, rhs) == NPow32(SumOfSquares(lhs, rhs))

\* the square of the distance in the place of its cube
RCubed0Squared(b0, b1) == NPow2(Distance(b0, b1))

\* rcubed as rk_3body.py f0 computes it: b0.distance(b1)**3
RCubed0(b0, b1) == NPow3(Distance(b0, b1))

\* dv_x += GM*rdiff_x/rcubed; dv_y += GM*rdiff_y/rcubed.  err is the
\* exception raised, "" if none: the one of a power in rcubed, or the
\* ZeroDivisionError of a float division by rcubed = 0.
Attract(acc, GM, rdiff_x, rdiff_y, rcubed) ==
  IF Raised(rcubed) THEN [acc EXCEPT !.err = rcubed.k]
  ELSE IF NIsZero(rcubed) THEN [acc EXCEPT !.err = "ZeroDivisionError"]
  ELSE [err |-> "",
        x   |-> NAdd(acc.x, NDiv(NMul(GM, rdiff_x), rcubed)),
        y   |-> NAdd(acc.y, NDiv(NMul(GM, rdiff_y), rcubed))]

NoAccel(kind) == [err |-> "", x |-> NInt(kind, 0), y |-> NInt(kind, 0)]

\* the sums of f1 with GM taken from the attracted body's own mass
RECURSIVE Accumulate1OwnMass(_, _, _, _)
Accumulate1OwnMass(g, lhs, others, acc) ==
  IF acc.err # "" \/ others = <<>> THEN acc
  ELSE Accumulate1OwnMass(g, lhs, Tail(others),
                          Attract(acc, NMul(NNeg(g), lhs.M),
                                  NSub(lhs.x, Head(others).x), NSub(lhs.y, Head(others).y),
                                  RCubed1(lhs, Head(others))))

\* The inner loop of f1: the running sums dv_x[i0], dv_y[i0] of lhs over the
\* bodies in `others', in their order.
RECURSIVE Accumulate1(_, _, _, _)
Accumulate1(g, lhs, others, acc) ==
  IF acc.err # "" \/ others = <<>> THEN acc
  ELSE Accumulate1(g, lhs, Tail(others),
                   Attract(acc, NMul(NNeg(g), Head(others).M),
                           NSub(lhs.x, Head(others).x), NSub(lhs.y, Head(others).y),
                           RCubed1(lhs, Head(others))))

\* The blocks of f0 for b1 and then b2, each adding to dv_x, dv_y of b0.
RECURSIVE Accumulate0(_, _, _, _)
Accumulate0(g, b0, others, acc) ==
  IF acc.err # "" \/ others = <<>> THEN acc
  ELSE Accumulate0(g, b0, Tail(others),
                   Attract(acc, NMul(NNeg(g), Head(others).M),
                           NSub(b0.x, Head(others).x), NSub(b0.y, Head(others).y),
                           RCubed0(b0, Head(others))))

\* the bodies that differ from bodies[i0] in some field
OthersByValue(bs, i0) == SelectSeq(bs, LAMBDA b : b # bs[i0])

\* [b for i1, b in enumerate(bodies) if i0 != i1]
Others(bs, i0) == [j \in 1..(Len(bs) - 1) |-> bs[IF j < i0 THEN j ELSE j + 1]]

RECURSIVE F1Rows(_, _, _)
F1Rows(g, bs, i0) ==
  IF i0 > Len(bs) THEN <<>>
  ELSE <<Accumulate1(g, bs[i0], Others(bs, i0), NoAccel(bs[i0].x.k))>>
       \o F1Rows(g, bs, i0 + 1)

\* A derivative sample from the per-body sums: the four parallel lists; err
\* is the exception of the first row that raised.
Sample(rows, bs) ==
  [err  |-> IF \A i \in 1..Len(rows) : rows[i].err = "" THEN ""
            ELSE rows[CHOOSE i \in 1..Len(rows) :
                        rows[i].err # "" /\ \A j \in 1..(i - 1) : rows[j].err = ""].err,
   dv_x |-> [i \in 1..Len(rows) |-> rows[i].x],
   dv_y |-> [i \in 1..Len(rows) |-> rows[i].y],
   vx   |-> [i \in 1..Len(rows) |-> bs[i].vx],
   vy   |-> [i \in 1..Len(rows) |-> bs[i].vy]]

\* rk_nbody.py f1(bodies)
f1(g, bs) == Sample(F1Rows(g, bs, 1), bs)

\* rk_3body.py f0(b0, b1, b2)
f0(g, b0, b1, b2) == Accumulate0(g, b0, <<b1, b2>>, NoAccel(b0.x.k))

\* the three calls f0(b1, b2, b3), f0(b2, b1, b3), f0(b3, b1, b2)
RECURSIVE F0Rows(_, _, _)
F0Rows(g, bs, i) ==
  IF i > 3 THEN <<>>
  ELSE <<f0(g, bs[i], Others(bs, i)[1], Others(bs, i)[2])>> \o F0Rows(g, bs, i + 1)

F0Calls(g, bs) == Sample(F0Rows(g, bs, 1), bs)

\* rkfuncs.gravity_first_order(bodies), to which rk_nbody.py line 54 rebinds
\* the name f1; lib/rkfuncs.c is not at hand.  The kernel is taken from its
\* description: the sums of f1, and a division-by-zero result (infinity or
\* NaN) in the place of an exception.  A sample with err = "nonfinite" holds
\* a value that is not finite, or was computed from one (a power that
\* overflowed); the model does not follow such values.
\* sums is f1(bodies).
gravity_first_order(sums) == [sums EXCEPT !.err = IF @ = "" THEN "" ELSE "nonfinite"]

\* the kernel named kern, called on every body
Called(kern, sums) == IF kern = "f1" THEN sums ELSE gravity_first_order(sums)
Kernel(kern, g, bs) == IF kern = "f0" THEN F0Calls(g, bs) ELSE Called(kern, f1(g, bs))

\* the derivative of each field of body i in sample k
Rates(k, i) == [x |-> k.vx[i], y |-> k.vy[i], vx |-> k.dv_x[i], vy |-> k.dv_y[i]]

\* increments whose mass is scaled by the step like the other fields
make_increment_args_mass(bs, k, hh) ==
  [i \in 1..Len(bs) |->
     [f \in Fields |-> IF f = "M" THEN NMul(bs[i].M, hh)
                       ELSE NAdd(bs[i][f], NMul(Rates(k, i)[f], hh))]]

\* rk_nbody.py make_increment_args(bodies, dv_x, dv_y, vx, vy, h):
\* Body(b.M, b.x + vx[idx]*h, b.y + vy[idx]*h, b.vx + dv_x[idx]*h, b.vy + dv_y[idx]*h)
make_increment_args(bs, k, hh) ==
  [i \in 1..Len(bs) |->
     [f \in Fields |-> IF f = "M" THEN bs[i].M
                       ELSE NAdd(bs[i][f], NMul(Rates(k, i)[f], hh))]]

\* rk_3body.py: b.x + k_vx*h/2, ... for the midpoints (lines 140-160, 168-188)
Midpoint(bs, k, hh) ==
  [i \in 1..Len(bs) |->
     [f \in Fields |-> IF f = "M" THEN bs[i].M
                       ELSE NAdd(bs[i][f], NDiv(NMul(Rates(k, i)[f], hh), NInt(hh.k, 2)))]]

\* rk_3body.py: b.x + k_vx*h, ... for the endpoint (lines 196-216)
Endpoint(bs, k, hh) ==
  [i \in 1..Len(bs) |->
     [f \in Fields |-> IF f = "M" THEN bs[i].M
                       ELSE NAdd(bs[i][f], NMul(Rates(k, i)[f], hh))]]

\* the state the next slope is evaluated at, displaced from `base' by half a step
HalfStep(p, base, k, hh) ==
  IF p = "nbody" THEN make_increment_args(base, k, NDiv(hh, NInt(hh.k, 2)))
  ELSE Midpoint(base, k, hh)

\* ... and by a whole step
FullStep(p, base, k, hh) ==
  IF p = "nbody" THEN make_increment_args(base, k, hh) ELSE Endpoint(base, k, hh)

\* v + 1/6*(a + 2*(b + c) + d)*h
Weighted(v, a, b, c, d, hh) ==
  NAdd(v, NMul(NMul(NDiv(NInt(hh.k, 1), NInt(hh.k, 6)),
                    NAdd(NAdd(a, NMul(NInt(hh.k, 2), NAdd(b, c))), d)),
               hh))

\* body b, at index i, at the end of the step (rk_nbody.py 181-189, rk_3body.py 224-254)
Advance(b, i, ka, kb, kc, kd, hh) ==
  [f \in Fields |-> IF f = "M" THEN b.M
                    ELSE Weighted(b[f], Rates(ka, i)[f], Rates(kb, i)[f],
                                  Rates(kc, i)[f], Rates(kd, i)[f], hh)]

AdvanceAll(bs, ka, kb, kc, kd, hh) ==
  [i \in 1..Len(bs) |-> Advance(bs[i], i, ka, kb, kc, kd, hh)]

\* One whole loop body of program p with the kernel kern from the state bs,
\* as a function: [err, bodies], bodies unchanged when a kernel call raises.
RK4Updated(bs, hh, ka, kb, kc, kd) ==
  [err |-> kd.err, bodies |-> IF kd.err # "" THEN bs ELSE AdvanceAll(bs, ka, kb, kc, kd, hh)]
RK4After3(p, kern, g, bs, hh, ka, kb, kc) ==
  IF kc.err # "" THEN [err |-> kc.err, bodies |-> bs]
  ELSE RK4Updated(bs, hh, ka, kb, kc, Kernel(kern, g, FullStep(p, bs, kc, hh)))
RK4After2(p, kern, g, bs, hh, ka, kb) ==
  IF kb.err # "" THEN [err |-> kb.err, bodies |-> bs]
  ELSE RK4After3(p, kern, g, bs, hh, ka, kb, Kernel(kern, g, HalfStep(p, bs, kb, hh)))
RK4After1(p, kern, g, bs, hh, ka) ==
  IF ka.err # "" THEN [err |-> ka.err, bodies |-> bs]
  ELSE RK4After2(p, kern, g, bs, hh, ka, Kernel(kern, g, HalfStep(p, bs, ka, hh)))
RK4(p, kern, g, bs, hh) == RK4After1(p, kern, g, bs, hh, Kernel(kern, g, bs))

\* [(b.x, b.y) for b in bodies]
Snapshot(bs) == [i \in 1..Len(bs) |-> <<bs[i].x, bs[i].y>>]

\* the sampling stride: step % 10 in rk_nbody.py, step % 100 in rk_3body.py
Stride(p) == IF p = "nbody" THEN 10 ELSE 100

(***************************************************************************)
(* Configurations.  A number is written <<n, p>> for the literal n/10^p    *)
(* and <<n, p, e>> for that literal times 2.0**e, a body                   *)
(* <<M, x, y, vx, vy>>.  kind "f" runs the configuration in binary64 as    *)
(* the interpreter does, kind "q" in exact rational arithmetic.  A run of  *)
(* rk_nbody.py names its kernel: "gravity_first_order" is the script as it *)
(* stands, "f1" the script with the Python f1 of its lines 35-52 (line 54  *)
(* not executed).  rk_3body.py has the kernel "f0".                        *)
(***************************************************************************)
MaxIter == 250
MaxStuck == 12
MaxTenths == 23
Long3 == 201

\* 2.0**e
TwoTo(kind, e) ==
  IF kind = "f" THEN FScaled(One, e)
  ELSE QOf(0, <<BShl(<<1>>, IF e > 0 THEN e ELSE 0), BShl(<<1>>, IF e < 0 THEN 0 - e ELSE 0)>>)
Num(kind, d) ==
  IF Len(d) = 2 THEN NDec(kind, d[1], d[2])
  ELSE NMul(NDec(kind, d[1], d[2]), TwoTo(kind, d[3]))
MakeBody(kind, b) ==
  [M |-> Num(kind, b[1]), x |-> Num(kind, b[2]), y |-> Num(kind, b[3]),
   vx |-> Num(kind, b[4]), vy |-> Num(kind, b[5])]
\* the runs of the model
Configs ==
  LET I(n) == <<n, 0>>
      Run(p, kern, kind, g, hh, tf, bs) ==
        [prog |-> p, kernel |-> kern, kind |-> kind, G |-> g, h |-> hh, t_f |-> tf, bodies |-> bs]
      NBodyKernels == {"f1", "gravity_first_order"}

      \* one free body, h = 0.1, t_f = 0.0 .. MaxTenths/10: the loop and its
      \* reporting, with h, int(t_f/h) and every t += h rounded as binary64 does
      Loner == << <<I(1), I(0), I(0), I(1), <<5, 1>> >> >>
      LoopRuns ==
        {Run("nbody", kern, "f", I(1), <<1, 1>>, <<j, 1>>, Loner) :
           kern \in NBodyKernels, j \in {0, 3, 10, 15, MaxTenths}}

      \* three massless bodies drifting together, h = 1: the stride of rk_3body.py
      Inert3 == << <<I(0), I(0), I(0), I(1), I(0)>>,
                   <<I(0), I(3), I(4), I(1), I(0)>>,
                   <<I(0), I(6), I(0), I(1), I(0)>> >>
      LongRuns == {Run("3body", "f0", "q", I(1), I(1), I(j), Inert3) : j \in {0, 3, Long3}}

      \* interacting bodies
      Pair == << <<I(1), I(0), I(0), I(0), I(0)>>, <<I(2), I(2), I(0), I(0), I(0)>> >>
      Line3 == << <<I(1), I(0), I(0), I(0), I(0)>>,
                  <<I(2), I(3), I(4), I(0), I(0)>>,
                  <<I(1), I(-6), I(-8), I(0), I(0)>> >>
      Skew3 == << <<I(1), I(0), I(0), I(0), I(0)>>,
                  <<I(1), I(1), I(1), I(0), I(0)>>,
                  <<I(1), I(3), I(0), I(0), I(0)>> >>
      \* separations whose powers pow does not round to the nearest double:
      \* 2.759 ** 2 = 7.612080999999999 (nearest 7.612081) and, between the second
      \* and third body of Wide3, 12.459271567792397 ** 3 = 1934.0956850367797
      \* (nearest 1934.09568503678)
      Wide == << <<I(1), I(0), I(0), I(0), I(0)>>, <<I(1), <<2759, 3>>, I(0), I(0), I(0)>> >>
      Wide3 == << <<I(1), I(0), I(0), I(0), I(0)>>,
                  <<I(1), <<7562, 3>>, I(0), I(0), I(0)>>,
                  <<I(1), I(0), <<9902, 3>>, I(0), I(0)>> >>
      \* four massive bodies: sums of three terms
      Four == << <<I(1), I(0), I(0), I(0), I(0)>>,
                 <<I(3), I(1), I(1), I(0), I(0)>>,
                 <<I(2), I(3), I(0), I(0), I(0)>>,
                 <<I(5), I(-2), I(5), I(0), I(0)>> >>
      StepRuns ==
        {Run("nbody", "f1", "q", I(1), I(1), I(1), Pair),
         Run("nbody", "f1", "q", I(1), I(1), I(1), Line3),
         Run("3body", "f0", "q", I(1), I(1), I(1), Line3),
         Run("3body", "f0", "f", I(1), <<5, 1>>, I(1), Skew3),
         Run("nbody", "f1", "f", I(1), <<1, 1>>, <<12, 1>>, Pair),
         Run("nbody", "gravity_first_order", "f", I(1), <<5, 1>>, <<5, 1>>, Pair),
         Run("nbody", "f1", "f", I(1), <<5, 1>>, <<5, 1>>, Wide),
         Run("nbody", "f1", "f", I(1), <<5, 1>>, <<5, 1>>, Four),
         Run("3body", "f0", "f", I(1), <<5, 1>>, <<5, 1>>, Wide3)}

      \* the same loop with a step that binary64 holds and adds exactly (h = 0.25)
      ExactRuns ==
        {Run("nbody", kern, "f", I(1), <<25, 2>>, <<j, 2>>, Loner) :
           kern \in NBodyKernels, j \in {75, 80, 575}}

      \* bodies at one place: two with equal fields, and two that differ in mass
      \* and velocity
      Twins == << <<I(1), I(0), I(0), I(0), I(0)>>, <<I(1), I(0), I(0), I(0), I(0)>> >>
      Clash3 == << <<I(1), I(0), I(0), I(0), I(0)>>,
                   <<I(2), I(0), I(0), I(1), I(0)>>,
                   <<I(1), I(3), I(4), I(0), I(0)>> >>
      ClashRuns ==
        {Run("nbody", "f1", kind, I(1), I(1), I(1), Twins) : kind \in {"q", "f"}}
          \cup {Run("3body", "f0", kind, I(1), I(1), I(1), Clash3) : kind \in {"q", "f"}}
          \cup {Run("nbody", "gravity_first_order", "f", I(1), I(1), I(1), Twins)}

      \* steps that never reach t_f (h = 0, h = -0.1, h = -1), followed for
      \* MaxStuck iterations, and a step 2.0**-600 towards t_f = 2.0**600, whose
      \* quotient is infinite
      StuckRuns ==
        {Run("nbody", "f1", "f", I(1), <<1, 0, -600>>, <<1, 0, 600>>, Loner)} \cup
        {Run("nbody", kern, "f", I(1), hh, <<3, 1>>, Loner) :
           kern \in NBodyKernels, hh \in {I(0), <<-1, 1>>}}
          \cup {Run("3body", "f0", "f", I(1), hh, I(3), Inert3) : hh \in {I(0), I(-1)}}
          \cup {Run("3body", "f0", "f", I(1), I(0), I(3), Clash3)}

      \* bodies of mass 0 among massive ones: between two bodies on a line, beside
      \* Skew3, in the path of a moving body, in the place of Line3's second body,
      \* 2.0**-400 from a body (the cube of the separation underflows to 0.0), alone
      \* or with a second massless body further off, and 2.0**700 from a body (the
      \* square of the separation overflows), and 3 * 2.0**1023 from it (the
      \* separation itself is infinite); two bodies whose G*M is below 2.0**-1022
      Traced == << <<I(1), I(0), I(0), I(0), I(0)>>,
                   <<I(0), I(1), I(0), I(0), I(0)>>,
                   <<I(2), I(2), I(0), I(0), I(0)>> >>
      Skew4 == << <<I(1), I(0), I(0), I(0), I(0)>>,
                  <<I(1), I(1), I(1), I(0), I(0)>>,
                  <<I(0), I(2), I(2), <<-5, 1>>, I(0)>>,
                  <<I(1), I(3), I(0), I(0), I(0)>> >>
      Chase == << <<I(1), I(0), I(0), I(2), I(0)>>, <<I(0), I(1), I(0), I(0), I(0)>> >>
      Traced3 == << <<I(1), I(0), I(0), I(0), I(0)>>,
                    <<I(0), I(3), I(4), I(0), I(0)>>,
                    <<I(2), I(-6), I(-8), I(0), I(0)>> >>
      Near == << <<I(1), I(0), I(0), I(0), I(0)>>, <<I(0), <<1, 0, -400>>, I(0), I(0), I(0)>> >>
      Near3 == << <<I(1), I(0), I(0), I(0), I(0)>>,
                  <<I(0), <<1, 0, -400>>, I(0), I(0), I(0)>>,
                  <<I(0), I(0), I(3), I(0), I(0)>> >>
      Far == << <<I(1), I(0), I(0), I(0), I(0)>>, <<I(0), I(0), <<1, 0, 700>>, I(0), I(0)>> >>
      Vast == << <<I(1), <<-15, 1, 1023>>, I(0), I(0), I(0)>>,
                 <<I(0), <<15, 1, 1023>>, I(0), I(0), I(0)>> >>
      Faint == << <<<<1, 1, -540>>, I(0), I(0), I(0), I(0)>>,
                  <<<<2, 1, -540>>, <<5, 1>>, I(0), I(0), I(0)>> >>
      TracerRuns ==
        {Run("nbody", "f1", "q", I(1), <<5, 1>>, <<5, 1>>, Traced),
         Run("nbody", "f1", "f", I(1), <<5, 1>>, I(1), Skew4),
         Run("nbody", "f1", "q", I(1), I(1), I(1), Chase),
         Run("nbody", "f1", "f", I(1), I(1), I(1), Chase),
         Run("nbody", "f1", "f", I(1), I(1), I(1), Near),
         Run("nbody", "f1", "f", I(1), I(1), I(1), Near3),
         Run("nbody", "f1", "f", I(1), I(1), I(1), Far),
         Run("nbody", "f1", "f", I(1), <<5, 1>>, I(1), Vast),
         Run("nbody", "f1", "f", <<1, 0, -530>>, <<5, 1>>, I(1), Faint),
         Run("3body", "f0", "q", I(1), I(1), I(1), Traced3)}
  IN  LoopRuns \cup ExactRuns \cup StuckRuns \cup LongRuns \cup StepRuns
        \cup ClashRuns \cup TracerRuns

(***************************************************************************)
(* The state of a run.  prog, kernel, G, h, t_f are the configuration; t,  *)
(* bodies, step, steps, points, k1..k4, increments, idx are the variables  *)
(* of the main loop (steps = <<>> while the name is unbound).  pc is the   *)
(* position in the script; a run that raised stays at the name of its      *)
(* exception, and one whose compiled kernel met a value that is not finite *)
(* stays at "nonfinite".  iter counts the additions t += h, pre is the     *)
(* body list at the start of the current loop body, arg the state handed   *)
(* to the last kernel call, taken the values of iter at which a snapshot   *)
(* was appended, initial the body list after configuration, drift whether  *)
(* some t += h was rounded.                                                *)
(***************************************************************************)
VARIABLES prog, kernel, G, h, t_f, t, bodies, step, steps, points, pc,
          k1, k2, k3, k4, increments, idx,
          iter, pre, arg, taken, initial, drift

vars == <<prog, kernel, G, h, t_f, t, bodies, step, steps, points, pc,
          k1, k2, k3, k4, increments, idx,
          iter, pre, arg, taken, initial, drift>>

config == <<prog, kernel, G, h, t_f, initial>>
slopes == <<k1, k2, k3, k4>>
report == <<step, steps, points, taken>>

NoSample == [err |-> "", dv_x |-> <<>>, dv_y |-> <<>>, vx |-> <<>>, vy |-> <<>>]

\* n*hh compared with v, exactly: -1, 0 or 1   (n >= 0, hh > 0, v >= 0)
TimesCmp(n, hh, v) ==
  IF hh.k = "q" THEN QCmp(QMul(QFromInt(n), hh), v)
  ELSE BCmp(BShl(BMul(BFromInt(n), hh.m), hh.e - Min(hh.e, v.e)),
            BShl(v.m, v.e - Min(hh.e, v.e)))

\* 0 < a
Positive(a) == NLt(NInt(a.k, 0), a)

\* a loop test that still admits t = t_f
LoopTestLe(tt, tf) == ~NLt(tf, tt)

\* the loop test of `while t < t_f:`
LoopTest(tt, tf) == NLt(tt, tf)

\* while t < t_f:
While ==
  /\ pc = "while"
  /\ iter < MaxIter
  /\ ~(iter >= MaxStuck /\ ~Positive(h))
  /\ IF LoopTest(t, t_f)
       THEN pc' = "k1" /\ pre' = bodies
       ELSE pc' = (IF prog = "nbody" THEN "print" ELSE "plot") /\ pre' = pre
  /\ UNCHANGED <<config, t, bodies, report, slopes, increments, idx, iter, arg, drift>>

\* k1 = kernel(bodies); the midpoint state from bodies and k1
Sampled1(k) ==
  IF k.err # ""
    THEN pc' = k.err /\ UNCHANGED <<k1, increments>>
    ELSE pc' = "k2" /\ k1' = k /\ increments' = HalfStep(prog, bodies, k, h)

\* k1 with the midpoint written over the body list itself
Slope1InPlace ==
  /\ pc = "k1"
  /\ arg' = bodies
  /\ Sampled1(Kernel(kernel, G, bodies))
  /\ bodies' = IF pc' = "k2" THEN increments' ELSE bodies
  /\ UNCHANGED <<config, t, report, k2, k3, k4, idx, iter, pre, drift>>

Slope1 ==
  /\ pc = "k1"
  /\ arg' = bodies
  /\ Sampled1(Kernel(kernel, G, bodies))
  /\ UNCHANGED <<config, t, bodies, report, k2, k3, k4, idx, iter, pre, drift>>

\* the second midpoint displaced from the first midpoint
Sampled2Chained(k) ==
  IF k.err # ""
    THEN pc' = k.err /\ UNCHANGED <<k2, increments>>
    ELSE pc' = "k3" /\ k2' = k /\ increments' = HalfStep(prog, increments, k, h)

\* k2 = kernel(midpoint); the second midpoint state, from bodies and k2
Sampled2(k) ==
  IF k.err # ""
    THEN pc' = k.err /\ UNCHANGED <<k2, increments>>
    ELSE pc' = "k3" /\ k2' = k /\ increments' = HalfStep(prog, bodies, k, h)

Slope2 ==
  /\ pc = "k2"
  /\ arg' = increments
  /\ Sampled2(Kernel(kernel, G, increments))
  /\ UNCHANGED <<config, t, bodies, report, k1, k3, k4, idx, iter, pre, drift>>

\* k3 = kernel(second midpoint); the endpoint state, from bodies and k3
Sampled3(k) ==
  IF k.err # ""
    THEN pc' = k.err /\ UNCHANGED <<k3, increments>>
    ELSE pc' = "k4" /\ k3' = k /\ increments' = FullStep(prog, bodies, k, h)

Slope3 ==
  /\ pc = "k3"
  /\ arg' = increments
  /\ Sampled3(Kernel(kernel, G, increments))
  /\ UNCHANGED <<config, t, bodies, report, k1, k2, k4, idx, iter, pre, drift>>

\* k4 = kernel(endpoint)
Sampled4(k) ==
  IF k.err # ""
    THEN pc' = k.err /\ UNCHANGED <<k4, idx>>
    ELSE pc' = "update" /\ k4' = k /\ idx' = 1

Slope4 ==
  /\ pc = "k4"
  /\ arg' = increments
  /\ Sampled4(Kernel(kernel, G, increments))
  /\ UNCHANGED <<config, t, bodies, report, k1, k2, k3, increments, iter, pre, drift>>

\* rk_nbody.py: one pass of `for idx, b in enumerate(bodies)`, in place
UpdateBody ==
  /\ pc = "update"
  /\ prog = "nbody"
  /\ bodies' = [bodies EXCEPT ![idx] = Advance(bodies[idx], idx, k1, k2, k3, k4, h)]
  /\ idx' = idx + 1
  /\ pc' = IF idx = Len(bodies) THEN "tick" ELSE "update"
  /\ UNCHANGED <<config, t, report, slopes, increments, iter, pre, arg, drift>>

\* rk_3body.py: all b*_h_* values are computed, then assigned
UpdateAll ==
  /\ pc = "update"
  /\ prog = "3body"
  /\ bodies' = AdvanceAll(bodies, k1, k2, k3, k4, h)
  /\ pc' = "tick"
  /\ UNCHANGED <<config, t, report, slopes, increments, idx, iter, pre, arg, drift>>

\* t += h; step += 1
Clock ==
  /\ t' = NAdd(t, h)
  /\ iter' = iter + 1
  /\ drift' = (drift \/ t'.k \notin {"q", "f"} \/ TimesCmp(iter + 1, h, t') # 0)

\* steps = int(n) for a finite quotient t_f/h; `if step > steps-10: step =
\* steps`; math.log10(steps), which raises for steps <= 0; append
Progress(n) ==
  /\ steps' = <<n>>
  /\ step' = IF step + 1 > n - 10 THEN n ELSE step + 1
  /\ IF n <= 0
       THEN pc' = "ValueError" /\ UNCHANGED <<points, taken>>
       ELSE /\ pc' = "while"
            /\ points' = Append(points, Snapshot(bodies))
            /\ taken' = Append(taken, iter + 1)

\* rk_nbody.py: the end of the loop body, with the block under `if step % 10
\* == 0`, where steps = int(t_f/h) raises ZeroDivisionError for h = 0,
\* OverflowError for an infinite quotient and ValueError for a NaN
TickN ==
  /\ pc = "tick"
  /\ prog = "nbody"
  /\ Clock
  /\ IF (step + 1) % Stride(prog) # 0
       THEN step' = step + 1 /\ pc' = "while" /\ UNCHANGED <<steps, points, taken>>
       ELSE IF NDiv(t_f, h).k \in {"q", "f"} THEN Progress(NTrunc(NDiv(t_f, h)))
       ELSE /\ step' = step + 1
            /\ pc' = IF NDiv(t_f, h).k = "inf" THEN "steps OverflowError"
                     ELSE IF NDiv(t_f, h).k = "nan" THEN "steps ValueError"
                     ELSE "steps ZeroDivisionError"
            /\ UNCHANGED <<steps, points, taken>>
  /\ UNCHANGED <<config, bodies, slopes, increments, idx, pre, arg>>

\* rk_3body.py: `if step % 100 == 0: points.append(...)`
Tick3 ==
  /\ pc = "tick"
  /\ prog = "3body"
  /\ Clock
  /\ step' = step + 1
  /\ pc' = "while"
  /\ IF (step + 1) % Stride(prog) = 0
       THEN points' = Append(points, Snapshot(bodies)) /\ taken' = Append(taken, iter + 1)
       ELSE UNCHANGED <<points, taken>>
  /\ UNCHANGED <<config, bodies, steps, slopes, increments, idx, pre, arg>>

\* rk_nbody.py: print(f"{steps/(time.time()-t0):.2f} steps/s")
Throughput ==
  /\ pc = "print"
  /\ pc' = IF steps = <<>> THEN "NameError" ELSE "plot"
  /\ UNCHANGED <<config, t, bodies, report, slopes, increments, idx, iter, pre, arg, drift>>

\* plot_animated(points, ...): reads points[0], then hands over to the plot
plot_animated ==
  /\ pc = "plot"
  /\ pc' = IF points = <<>> THEN "IndexError" ELSE "done"
  /\ UNCHANGED <<config, t, bodies, report, slopes, increments, idx, iter, pre, arg, drift>>

Next ==
  \/ While
  \/ Slope1
  \/ Slope2
  \/ Slope3
  \/ Slope4
  \/ UpdateBody
  \/ UpdateAll
  \/ TickN
  \/ Tick3
  \/ Throughput
  \/ plot_animated

\* the state after configuration of run c
Start(c, bs) ==
  /\ prog = c.prog
  /\ kernel = c.kernel
  /\ G = Num(c.kind, c.G)
  /\ h = Num(c.kind, c.h)
  /\ t_f = Num(c.kind, c.t_f)
  /\ t = NInt(c.kind, 0)
  /\ bodies = bs
  /\ initial = bs
  /\ pre = bs
  /\ arg = <<>>
  /\ step = 0
  /\ steps = <<>>
  /\ points = <<>>
  /\ taken = <<>>
  /\ k1 = NoSample /\ k2 = NoSample /\ k3 = NoSample /\ k4 = NoSample
  /\ increments = <<>>
  /\ idx = 0
  /\ iter = 0
  /\ drift = FALSE
  /\ pc = "while"

Init == \E c \in Configs : Start(c, [i \in 1..Len(c.bodies) |-> MakeBody(c.kind, c.bodies[i])])

Spec == Init /\ [][Next]_vars

(***************************************************************************)
(* Properties.  Positions of the script: InBody is inside the loop body    *)
(* (the last two after t += h), Exited is past the loop (its test was      *)
(* false), Stopped is at a kernel call that did not return a finite sample.*)
(***************************************************************************)
Stopped == pc \in {"ZeroDivisionError", "OverflowError", "nonfinite"}
InBody ==
  \/ pc \in {"k1", "k2", "k3", "k4", "update", "tick"}
  \/ Stopped
  \/ pc \in {"steps ZeroDivisionError", "steps OverflowError", "steps ValueError", "ValueError"}
Exited == pc \in {"print", "plot", "done", "NameError", "IndexError"}

\* n = ceil(t_f/h) for the real numbers t_f > 0 and h > 0
CeilIs(n) == n >= 1 /\ TimesCmp(n - 1, h, t_f) < 0 /\ TimesCmp(n, h, t_f) >= 0

\* C1: for h > 0 and t_f > 0, whenever the loop test is next, the trajectory
\* holds floor(n/K) snapshots after n completed iterations, and the i-th
\* snapshot was appended after exactly i*K iterations (K = 10 or 100).
C1_SnapshotEveryKthStep ==
  pc = "while" /\ Positive(h) /\ Positive(t_f) =>
    /\ Len(points) = iter \div Stride(prog)
    /\ Len(taken) = Len(points)
    /\ \A i \in 1..Len(taken) : taken[i] = i * Stride(prog)

\* C2: no run enters an error state between the exit of the loop and the
\* hand-off to the plot: the throughput print finds `steps' bound and
\* plot_animated finds points[0].
C2_HandOffWithoutError == pc \notin {"NameError", "IndexError"}

\* C3: a kernel evaluation with two bodies at zero separation raises no
\* error: no run stops with the ZeroDivisionError of a kernel call.
C3_ZeroSeparationRaisesNothing == pc # "ZeroDivisionError"

\* C4 as stated: for h > 0 and t_f > 0 the loop is left after exactly
\* ceil(t_f/h) iterations with t >= t_f, and for h <= 0 < t_f it is never left.
C4_CeilingOfQuotient ==
  /\ Exited /\ Positive(h) /\ Positive(t_f) => CeilIs(iter) /\ ~NLt(t, t_f)
  /\ ~Positive(h) /\ Positive(t_f) => ~Exited

\* C4 amended: the loop body runs only while the accumulated t is below t_f
\* and the loop is left only when it is not, whatever `step' holds; for
\* t_f <= 0 no iteration runs; for h > 0 and t_f > 0 a run that leaves the
\* loop has made ceil(t_f/h) iterations whenever no addition t += h was
\* rounded; for h <= 0 < t_f the test never fails (t stays <= 0): the loop
\* is never left, and rk_nbody.py gets no further than the progress block of
\* its 10th iteration, which raises ZeroDivisionError for h = 0 and
\* ValueError for h < 0 with a finite t_f/h; OverflowError is raised there
\* only for an infinite t_f/h.
C4_LoopRunsWhileBelow ==
  /\ InBody => NLt(t, t_f)
  /\ Exited => ~NLt(t, t_f)
  /\ Exited /\ ~Positive(t_f) => iter = 0
  /\ Exited /\ Positive(h) /\ Positive(t_f) /\ ~drift => CeilIs(iter) /\ NLt(NSub(t, h), t_f)
  /\ ~Positive(h) /\ Positive(t_f) =>
       /\ ~Exited /\ ~Positive(t)
       /\ pc = "while" => LoopTest(t, t_f)
       /\ prog = "nbody" =>
            /\ iter <= 10
            /\ iter = 10 /\ NIsZero(h) => pc = "steps ZeroDivisionError"
            /\ iter = 10 /\ NDiv(t_f, h).k = "f" => pc = "ValueError"
       /\ prog = "3body" =>
            pc \notin {"steps ZeroDivisionError", "steps OverflowError",
                       "steps ValueError", "ValueError"}
  /\ pc = "steps OverflowError" => iter = 10 /\ NDiv(t_f, h).k = "inf"

\* a binary64 run left the loop after ceil(t_f/h) exact additions while
\* `step' had been reset to another value than the count of iterations
C4_Witness ==
  /\ Exited /\ h.k = "f" /\ Positive(h) /\ Positive(t_f) /\ ~drift
  /\ CeilIs(iter) /\ step # iter /\ iter > 20

\* C5: within a loop body the body list is the pre-step list until k1..k4
\* are complete (k1 is evaluated on it, and each intermediate state is
\* displaced from it); during the in-place update body i is computed from
\* its own pre-step fields and the stored samples, so bodies not yet updated
\* are untouched and the updated ones do not depend on the order of update.
C5_PreStepStateUntilUpdate ==
  /\ pc \in {"k1", "k2", "k3", "k4"} \/ Stopped => bodies = pre
  /\ pc = "k2" => arg = pre /\ increments = HalfStep(prog, pre, k1, h)
  /\ pc = "k3" => increments = HalfStep(prog, pre, k2, h)
  /\ pc = "k4" => increments = FullStep(prog, pre, k3, h)
  /\ pc = "update" =>
       \A i \in 1..Len(bodies) :
         bodies[i] = IF prog = "nbody" /\ i < idx
                       THEN Advance(pre[i], i, k1, k2, k3, k4, h) ELSE pre[i]
  /\ pc = "tick" => bodies = AdvanceAll(pre, k1, k2, k3, k4, h)

\* the in-place update has rewritten body 1 and not yet body 2
C5_Witness ==
  /\ prog = "nbody" /\ pc = "update" /\ idx = 2
  /\ bodies[1] # pre[1] /\ bodies[2] = pre[2] /\ k4.dv_x[2] # NInt(h.k, 0)

\* C6: in exact arithmetic one loop body is the classical RK4 step (k1..k4
\* are the samples the loop body has stored when it reaches its end): k1 at
\* the state, s1 the state displaced by k1 over h/2, k2 at s1, s2 the state
\* (not s1) displaced by k2 over h/2, k3 at s2, s3 the state displaced by k3
\* over h, k4 at s3, and new = old + h/6*(k1 + 2*(k2 + k3) + k4) for every
\* position (with the sampled velocities) and velocity (with the sampled
\* accelerations), masses copied.
C6_ClassicalRK4 ==
  pc = "tick" /\ h.k = "q" =>
    LET Displace(state, k, s) ==
          [i \in 1..Len(state) |->
             Body(state[i].M,
                  QAdd(state[i].x, QMul(k.vx[i], s)), QAdd(state[i].y, QMul(k.vy[i], s)),
                  QAdd(state[i].vx, QMul(k.dv_x[i], s)), QAdd(state[i].vy, QMul(k.dv_y[i], s)))]
        half == QDiv(h, QFromInt(2))
        sixth == QDiv(h, QFromInt(6))
        Combine(v, a, b, c, d) ==
          QAdd(v, QMul(sixth, QAdd(QAdd(a, QMul(QFromInt(2), QAdd(b, c))), d)))
    IN  /\ k1 = Kernel(kernel, G, pre)
        /\ k2 = Kernel(kernel, G, Displace(pre, k1, half))
        /\ k3 = Kernel(kernel, G, Displace(pre, k2, half))
        /\ k4 = Kernel(kernel, G, Displace(pre, k3, h))
        /\ bodies =
             [i \in 1..Len(pre) |->
                Body(pre[i].M,
                     Combine(pre[i].x, k1.vx[i], k2.vx[i], k3.vx[i], k4.vx[i]),
                     Combine(pre[i].y, k1.vy[i], k2.vy[i], k3.vy[i], k4.vy[i]),
                     Combine(pre[i].vx, k1.dv_x[i], k2.dv_x[i], k3.dv_x[i], k4.dv_x[i]),
                     Combine(pre[i].vy, k1.dv_y[i], k2.dv_y[i], k3.dv_y[i], k4.dv_y[i]))]

\* an exact step of interacting bodies is complete: the samples differ and
\* the bodies have moved
C6_Witness ==
  /\ pc = "tick" /\ h.k = "q" /\ Len(bodies) >= 2
  /\ k2 # k1 /\ k3 # k2 /\ bodies[1].x # pre[1].x

\* C7: the number of bodies, their order and their masses never change:
\* the body list and every intermediate state have the initial length and
\* masses, every derivative sample has one entry per body in each of its four
\* lists, and every snapshot has one pair per body, the newest being the
\* positions of the bodies in their order.
C7_FixedBodies ==
  LET N == Len(initial)
      Full(k) == k = NoSample
                   \/ (Len(k.dv_x) = N /\ Len(k.dv_y) = N /\ Len(k.vx) = N /\ Len(k.vy) = N)
  IN  /\ Len(bodies) = N
      /\ \A i \in 1..N : bodies[i].M = initial[i].M
      /\ increments # <<>> =>
           Len(increments) = N /\ \A i \in 1..N : increments[i].M = initial[i].M
      /\ Full(k1) /\ Full(k2) /\ Full(k3) /\ Full(k4)
      /\ \A p \in 1..Len(points) : Len(points[p]) = N
      /\ pc = "while" /\ taken # <<>> /\ taken[Len(taken)] = iter =>
           points[Len(points)] = [i \in 1..N |-> <<bodies[i].x, bodies[i].y>>]

\* two bodies of different mass, a snapshot taken, and a later intermediate
\* state built
C7_Witness ==
  /\ prog = "nbody" /\ Len(bodies) = 2 /\ initial[1].M # initial[2].M
  /\ Len(points) >= 1 /\ pc = "k3" /\ iter >= 10

\* the bodies of non-zero mass, in order: the run without the tracers
Massive(bs) == SelectSeq(bs, LAMBDA b : ~NIsZero(b.M))
\* a and b have the same finite coordinates
SamePlace(a, b) == a.x.k \in {"q", "f"} /\ a.y.k \in {"q", "f"} /\ a.x = b.x /\ a.y = b.y
Apart(bs) == \A i, j \in 1..Len(bs) : i # j => ~SamePlace(bs[i], bs[j])
\* a kernel call has just returned: LastSample is its result for the state arg
JustSampled == pc \in {"k2", "k3", "k4"} \/ (pc = "update" /\ idx = 1)
LastSample == IF pc = "k2" THEN k1 ELSE IF pc = "k3" THEN k2 ELSE IF pc = "k4" THEN k3 ELSE k4
\* entry i of LastSample is the acceleration `row', or that of the sample k
SampledRow(i, row) ==
  row.err = "" /\ LastSample.dv_x[i] = row.x /\ LastSample.dv_y[i] = row.y
SampledAccel(i, k) ==
  k.err = "" /\ LastSample.dv_x[i] = k.dv_x[i] /\ LastSample.dv_y[i] = k.dv_y[i]
\* the kernel of the run computes no rcubed for the bodies a and b (a power
\* overflows), or computes 0.0, an infinity or a NaN
NoCube(a, b) ==
  LET rcubed == IF kernel = "f0" THEN RCubed0(a, b) ELSE RCubed1(a, b)
  IN  Raised(rcubed) \/ NIsZero(rcubed) \/ rcubed.k \in {"inf", "nan"}
\* in the state s the rcubed of body i with every massless other body, and
\* in Clear(s) that of every massless body with every other body, is a finite
\* non-zero number
ClearOf(s, i) == \A j \in 1..Len(s) : j # i /\ NIsZero(s[j].M) => ~NoCube(s[i], s[j])
Clear(s) ==
  \A i, j \in 1..Len(s) :
    i # j /\ (NIsZero(s[i].M) \/ NIsZero(s[j].M)) => ~NoCube(s[i], s[j])

\* C8 as stated: from an initial state without coincident bodies, the
\* massive bodies of rk_nbody.py with the kernel f1 are after every step
\* where the same step without the massless bodies puts them, and the step
\* is completed whenever the step without them is.
C8_TracerChangesNothing ==
  prog = "nbody" /\ kernel = "f1" /\ Apart(initial) =>
    /\ pc = "tick" => Massive(bodies) = RK4(prog, kernel, G, Massive(pre), h).bodies
    /\ Stopped => RK4(prog, kernel, G, Massive(pre), h).err # ""

\* C8 amended, for the Python kernels f0 and f1: in every state a kernel is
\* evaluated on, a massless body j adds the term zero to the sums of every
\* body i for which the kernel computes a finite non-zero rcubed with j; when
\* the call returns, the acceleration of every body whose rcubed with every
\* massless body is finite and non-zero is the sum over the massive other
\* bodies alone, and that of a massless body does not change when it is given
\* mass; a completed step of rk_nbody.py in whose four evaluated states every
\* rcubed of a massless body is finite and non-zero leaves the massive bodies
\* where the step without the massless ones does; and where the step with
\* them is not completed although the step without them is, a massless body
\* has with another body, in the state evaluated, an rcubed that is not a
\* finite non-zero number.
C8_TracerChangesNothingUnlessMet ==
  kernel \in {"f0", "f1"} =>
    /\ JustSampled \/ Stopped =>
         \A i, j \in 1..Len(arg) :
           i # j /\ NIsZero(arg[j].M) /\ ~NoCube(arg[i], arg[j]) =>
             LET term == Attract(NoAccel(h.k), NMul(NNeg(G), arg[j].M),
                                 NSub(arg[i].x, arg[j].x), NSub(arg[i].y, arg[j].y),
                                 IF kernel = "f0" THEN RCubed0(arg[i], arg[j])
                                 ELSE RCubed1(arg[i], arg[j]))
             IN  term.err = "" /\ NIsZero(term.x) /\ NIsZero(term.y)
    /\ JustSampled =>
         \A i \in 1..Len(arg) :
           /\ ClearOf(arg, i) =>
                SampledRow(i, IF kernel = "f0"
                                THEN Accumulate0(G, arg[i], Massive(Others(arg, i)), NoAccel(h.k))
                                ELSE Accumulate1(G, arg[i], Massive(Others(arg, i)), NoAccel(h.k)))
           /\ NIsZero(arg[i].M) =>
                SampledAccel(i, Kernel(kernel, G, [arg EXCEPT ![i].M = NInt(h.k, 7)]))
    /\ /\ prog = "nbody" /\ pc = "tick"
       /\ Clear(pre) /\ Clear(HalfStep(prog, pre, k1, h))
       /\ Clear(HalfStep(prog, pre, k2, h)) /\ Clear(FullStep(prog, pre, k3, h))
       => /\ RK4(prog, kernel, G, Massive(pre), h).err = ""
          /\ Massive(bodies) = RK4(prog, kernel, G, Massive(pre), h).bodies
    /\ prog = "nbody" /\ Stopped /\ RK4(prog, kernel, G, Massive(pre), h).err = "" => ~Clear(arg)

\* a binary64 step of three massive bodies and an accelerated massless one
\* is complete
C8_Witness ==
  /\ prog = "nbody" /\ kernel = "f1" /\ pc = "tick" /\ h.k = "f"
  /\ Len(pre) = 4 /\ Len(Massive(pre)) = 3 /\ NIsZero(pre[3].M)
  /\ Clear(pre) /\ Clear(HalfStep(prog, pre, k1, h))
  /\ Clear(HalfStep(prog, pre, k2, h)) /\ Clear(FullStep(prog, pre, k3, h))
  /\ k1.dv_x[3] # NInt("f", 0) /\ bodies[1].vx # pre[1].vx

\* C9 as stated: after every step the bodies of rk_3body.py are those of the
\* step of rk_nbody.py with the kernel f1 from the same state, and the three
\* f0 calls return the entries of f1.
C9_ThreeBodyIsNBody ==
  prog = "3body" =>
    /\ pc = "tick" => bodies = RK4("nbody", "f1", G, pre, h).bodies
    /\ JustSampled => LastSample = f1(G, arg)

\* C9 amended: the three f0 calls return, for each of the three bodies, its
\* velocity and the sums of f1 over the other two in index order, with
\* rcubed = math.sqrt(dx**2 + dy**2)**3 in the place of f1's
\* (dx**2 + dy**2)**(3/2); the intermediate states are those that
\* make_increment_args builds from the same samples, and the update is that
\* of rk_nbody.py from the same samples; a call that raises has met an
\* rcubed that is 0.0 or is not computed; and in exact arithmetic,
\* where the two rcubed are one number, the samples are those of f1, f0
\* raises where f1 does and the step is the step of rk_nbody.py.
C9_ThreeBodyIsNBodyUpToRCubed ==
  prog = "3body" =>
    LET R3(i, j) ==
          NPow3(NSqrt(NAdd(NPow2(NSub(arg[j].x, arg[i].x)), NPow2(NSub(arg[j].y, arg[i].y)))))
        Term(i, j, c) ==
          NDiv(NMul(NMul(NNeg(G), arg[j].M), NSub(arg[i][c], arg[j][c])), R3(i, j))
        RECURSIVE Sum(_, _, _)
        Sum(i, j, c) ==
          IF j = 0 THEN NInt(h.k, 0)
          ELSE IF j = i THEN Sum(i, j - 1, c)
          ELSE NAdd(Sum(i, j - 1, c), Term(i, j, c))
    IN  /\ JustSampled =>
             \A i \in 1..3 :
               /\ LastSample.vx[i] = arg[i].vx /\ LastSample.vy[i] = arg[i].vy
               /\ LastSample.dv_x[i] = Sum(i, 3, "x") /\ LastSample.dv_y[i] = Sum(i, 3, "y")
        /\ pc \in {"k2", "k3"} =>
             increments = make_increment_args(pre, LastSample, NDiv(h, NInt(h.k, 2)))
        /\ pc = "k4" => increments = make_increment_args(pre, LastSample, h)
        /\ pc = "tick" => bodies = RK4Updated(pre, h, k1, k2, k3, k4).bodies
        /\ Stopped =>
             \E i, j \in 1..3 : i # j /\ (Raised(R3(i, j)) \/ NIsZero(R3(i, j)))
        /\ h.k = "q" =>
             /\ JustSampled => LastSample = f1(G, arg)
             /\ pc = "ZeroDivisionError" => f1(G, arg).err = "ZeroDivisionError"
             /\ pc = "tick" => bodies = RK4("nbody", "f1", G, pre, h).bodies

\* a binary64 step of rk_3body.py with attracting bodies is complete, and is
\* not the step of rk_nbody.py with f1
C9_Witness ==
  /\ prog = "3body" /\ pc = "tick" /\ h.k = "f"
  /\ Len(Massive(pre)) = 3 /\ bodies[1].vx # pre[1].vx /\ bodies[2].x # pre[2].x
  /\ bodies # RK4("nbody", "f1", G, pre, h).bodies

\* C10: after a call of the kernel f1 on N bodies, entry i of the sample is
\* the velocity of body i and the sum, over the indices j # i in increasing
\* order, of -G*M_j*(x_i - x_j)/r^3 and -G*M_j*(y_i - y_j)/r^3 with
\* r^3 = (dx^2 + dy^2)^1.5; a body is left out by its index only, so a call
\* on a state in which two indices hold one position divides by r^3 = 0 and
\* does not return; for N = 1 the acceleration is (0, 0).
C10_KernelIsIndexedSum ==
  kernel = "f1" /\ (JustSampled \/ pc \in {"ZeroDivisionError", "OverflowError"}) =>
    LET N == Len(arg)
        R3(i, j) == NPow32(NAdd(NPow2(NSub(arg[i].x, arg[j].x)),
                                NPow2(NSub(arg[i].y, arg[j].y))))
        Term(i, j, c) ==
          NDiv(NMul(NMul(NNeg(G), arg[j].M), NSub(arg[i][c], arg[j][c])), R3(i, j))
        RECURSIVE Sum(_, _, _)
        Sum(i, j, c) ==
          IF j = 0 THEN NInt(h.k, 0)
          ELSE IF j = i THEN Sum(i, j - 1, c)
          ELSE NAdd(Sum(i, j - 1, c), Term(i, j, c))
        Overflows(i, j) == Raised(R3(i, j))
        Zero(i, j) == ~Raised(R3(i, j)) /\ NIsZero(R3(i, j))
    IN  /\ JustSampled =>
             /\ \A i, j \in 1..N : i # j => ~SamePlace(arg[i], arg[j])
             /\ \A i \in 1..N :
                  /\ LastSample.vx[i] = arg[i].vx /\ LastSample.vy[i] = arg[i].vy
                  /\ LastSample.dv_x[i] = Sum(i, N, "x")
                  /\ LastSample.dv_y[i] = Sum(i, N, "y")
                  /\ N = 1 =>
                       LastSample.dv_x[i] = NInt(h.k, 0) /\ LastSample.dv_y[i] = NInt(h.k, 0)
        /\ pc = "ZeroDivisionError" => \E i, j \in 1..N : i # j /\ Zero(i, j)
        /\ pc = "OverflowError" => \E i, j \in 1..N : i # j /\ Overflows(i, j)

\* the kernel f1 has been called in binary64 on four massive bodies, and the
\* sum of the first body's three terms in decreasing index order is another
\* double than the one returned
C10_Witness ==
  /\ kernel = "f1" /\ pc = "k2" /\ h.k = "f" /\ Len(arg) = 4 /\ Len(Massive(arg)) = 4
  /\ LET T(j) == NDiv(NMul(NMul(NNeg(G), arg[j].M), NSub(arg[1].x, arg[j].x)),
                      RCubed1(arg[1], arg[j]))
     IN  k1.dv_x[1] # NAdd(NAdd(NAdd(NInt("f", 0), T(4)), T(3)), T(2))

=============================================================================
